---- MODULE Spec2Model ----
(***************************************************************************)
(* Model of the Slack-to-Jira RCA automation agent:                        *)
(*   - the sandboxed tool executor (readFile, listDirectory,               *)
(*     executeCommand) of github-service.js,                               *)
(*   - the tool-calling agent loops performRCA (rca-service.js) and        *)
(*     generateTestCases (test-cases-service.js).                          *)
(*                                                                         *)
(* Texts are sequences of tokens (a header line, a run of prose, a blank   *)
(* line), paths are sequences of segments and a segment is a sequence of   *)
(* characters, so that the regular expressions and the string-prefix test  *)
(* of the code are computed, not assumed.                                  *)
(*                                                                         *)
(* run is the agent-loop run in progress, wf the state of the workflow     *)
(* (processSlackEvent) that started it; under Spec and FairSpec a run is   *)
(* on its own and wf stays idle.                                           *)
(***************************************************************************)
EXTENDS Integers, Sequences, FiniteSets, TLC

VARIABLES run, wf

vars == <<run, wf>>

(***************************************************************************)
(* Generic helpers                                                         *)
(***************************************************************************)
None == <<>>

Some(v) == <<v>>

IsPrefix(p, s) ==
    /\ Len(p) <= Len(s)
    /\ \A i \in 1..Len(p) : p[i] = s[i]

Min(a, b) == IF a <= b THEN a ELSE b

Last(s) == s[Len(s)]

RECURSIVE Flatten(_)
Flatten(ss) == IF ss = <<>> THEN <<>> ELSE Head(ss) \o Flatten(Tail(ss))

(***************************************************************************)
(* Paths: github-service.js readFile / listDirectory                       *)
(***************************************************************************)
Slash == "/"

DotDot == <<".", ".">>

Dot == <<".">>

\* REPO_PATH = process.env.GITHUB_REPO_PATH || '/app/repo'
REPO_PATH == << <<"a", "p", "p">>, <<"r", "e", "p", "o">> >>

\* path.normalize on a list of segments of an absolute path: '.' and empty
\* segments are dropped, '..' removes the segment before it (and is dropped at '/').
RECURSIVE NormalizeFrom(_, _)
NormalizeFrom(done, rest) ==
    IF rest = <<>> THEN done
    ELSE LET s == Head(rest) IN
         IF s = Dot \/ s = <<>> THEN NormalizeFrom(done, Tail(rest))
         ELSE IF s = DotDot
              THEN NormalizeFrom(IF done = <<>> THEN done
                                 ELSE SubSeq(done, 1, Len(done) - 1), Tail(rest))
              ELSE NormalizeFrom(Append(done, s), Tail(rest))

\* path.resolve(path.isAbsolute(p) ? p : path.join(REPO_PATH, p))
ResolvePath(p) ==
    IF p.abs THEN NormalizeFrom(<<>>, p.segs)
    ELSE NormalizeFrom(<<>>, REPO_PATH \o p.segs)

\* The string of an absolute path: '/' for the root, else '/seg/seg...'
RECURSIVE PathString(_)
PathString(segs) ==
    IF segs = <<>> THEN <<>>
    ELSE <<Slash>> \o Head(segs) \o PathString(Tail(segs))

ToPathString(segs) == IF segs = <<>> THEN <<Slash>> ELSE PathString(segs)

\* String.prototype.startsWith
StartsWith(s, prefix) == IsPrefix(prefix, s)

\* The guard of readFile and listDirectory:
\*   !resolvedPath.startsWith(repoResolved)  -> throw 'outside repository'
PassesSandboxCheck(p) ==
    StartsWith(ToPathString(ResolvePath(p)),
               ToPathString(NormalizeFrom(<<>>, REPO_PATH)))

(***************************************************************************)
(* Texts.  A text is a sequence of tokens:                                 *)
(*   "SumH" "RcH" "FixH" "TcH" "CovH"  the header lines '## Summary',      *)
(*        '## Root Cause', '## Recommended Fix', '## Test Cases',          *)
(*        '## Test Coverage' (each with its line end),                     *)
(*   "Hdr"       any other '## ...' header line,                           *)
(*   "Case"      a numbered heading line '### 1. <title>',                 *)
(*   "Txt"       a run of prose without '##' and without an empty line,    *)
(*   "LongTxt"   such a run of more than 500 characters,                   *)
(*   "RcColon" "FixColon"  the phrases 'root cause ...:' and               *)
(*        'recommended fix ...:' inside prose,                             *)
(*   "Blank"     an empty line ('\n\n'),                                   *)
(* and the fixed sentences of the code, each one token.  The empty text    *)
(* also stands for a null content (both are falsy in the code).            *)
(***************************************************************************)
Undefined == <<"undefined">>

\* JavaScript truthiness of a text value
Truthy(v) == v # <<>> /\ v # Undefined

Headers == {"SumH", "RcH", "FixH", "TcH", "CovH", "Hdr", "Case"}

\* String.prototype.trim: white space at both ends is removed
RECURSIVE TrimLeft(_)
TrimLeft(t) ==
    IF t # <<>> /\ Head(t) = "Blank" THEN TrimLeft(Tail(t)) ELSE t

RECURSIVE TrimRight(_)
TrimRight(t) ==
    IF t # <<>> /\ Last(t) = "Blank" THEN TrimRight(SubSeq(t, 1, Len(t) - 1)) ELSE t

Trim(t) == TrimRight(TrimLeft(t))

\* Number of characters of a token
TokLen(tok) ==
    CASE tok = "LongTxt" -> 600
      [] tok = "Blank" -> 2
      [] tok = "Part" -> 1
      [] OTHER -> 20

\* A text taken whole, whatever its length
WholeText(t, n) == t

\* String.prototype.substring(0, n): the tokens that fit, then the part of the
\* next one that fits
RECURSIVE Substring(_, _)
Substring(t, n) ==
    IF t = <<>> \/ n <= 0 THEN <<>>
    ELSE IF TokLen(Head(t)) <= n
         THEN <<Head(t)>> \o Substring(Tail(t), n - TokLen(Head(t)))
         ELSE <<"Part">>

\* Array.prototype.join
RECURSIVE Join(_, _)
Join(texts, sep) ==
    IF texts = <<>> THEN <<>>
    ELSE IF Len(texts) = 1 THEN texts[1]
    ELSE texts[1] \o sep \o Join(Tail(texts), sep)

\* Index of the first token of t that is in S, 0 when there is none
FirstIn(t, S) ==
    IF \E i \in 1..Len(t) : t[i] \in S
    THEN CHOOSE i \in 1..Len(t) : t[i] \in S /\ \A j \in 1..(i - 1) : t[j] \notin S
    ELSE 0

\* The capture group of  /<header>\s*\n([\s\S]*?)(?=##|$)/i : None when the
\* header does not occur, else the text after its first occurrence up to the
\* next '##' or the end of the text
MatchSection(t, hdr) ==
    LET i == FirstIn(t, {hdr}) IN
    IF i = 0 THEN None
    ELSE LET rest == SubSeq(t, i + 1, Len(t))
             j == FirstIn(rest, Headers)
         IN  Some(IF j = 0 THEN rest ELSE SubSeq(rest, 1, j - 1))

\* The capture group of
\*   /(?:<header>|<phrase>.*?:)\s*\n?([\s\S]*?)(?=##|\n\n|$)/i :
\* None when neither anchor occurs, else the text after the first anchor and
\* the white space that follows it, up to the next '##', empty line or end
MatchLoose(t, anchors) ==
    LET i == FirstIn(t, anchors) IN
    IF i = 0 THEN None
    ELSE LET rest == TrimLeft(SubSeq(t, i + 1, Len(t)))
             j == FirstIn(rest, Headers \cup {"Blank"})
         IN  Some(IF j = 0 THEN rest ELSE SubSeq(rest, 1, j - 1))

(***************************************************************************)
(* The file system the tools see, and the paths the model may propose      *)
(***************************************************************************)
SegApp == <<"a", "p", "p">>

SegRepo == <<"r", "e", "p", "o">>

SegRepo2 == <<"r", "e", "p", "o", "2">>

SegSrc == <<"s", "r", "c">>

SegA == <<"a">>

SegB == <<"b">>

SegEtc == <<"e", "t", "c">>

\* Directories and files that exist, as resolved absolute paths
ExistingDirs ==
    { <<>>, <<SegApp>>, <<SegApp, SegRepo>>, <<SegApp, SegRepo, SegSrc>>,
      <<SegApp, SegRepo2>>, <<SegEtc>> }

ExistingFiles ==
    { <<SegApp, SegRepo, SegSrc, SegA>>, <<SegApp, SegRepo2, SegA>>, <<SegEtc, SegA>> }

PathIn == [abs |-> FALSE, segs |-> <<SegSrc, SegA>>]

PathMissing == [abs |-> FALSE, segs |-> <<SegSrc, SegB>>]

PathSibling == [abs |-> FALSE, segs |-> <<DotDot, SegRepo2, SegA>>]

PathAbsOut == [abs |-> TRUE, segs |-> <<SegEtc, SegA>>]

PathAbsIn == [abs |-> TRUE, segs |-> <<SegApp, SegRepo, SegSrc, Dot, SegA>>]

PathUp == [abs |-> FALSE, segs |-> <<SegSrc, DotDot, DotDot, DotDot>>]

PathRoot == [abs |-> FALSE, segs |-> <<Dot>>]

PathSrc == [abs |-> FALSE, segs |-> <<SegSrc>>]

\* path.relative(from, to) for two resolved paths
RelativePath(from, to) ==
    LET common == CHOOSE n \in 0..Min(Len(from), Len(to)) :
                      /\ SubSeq(from, 1, n) = SubSeq(to, 1, n)
                      /\ \A m \in (n + 1)..Min(Len(from), Len(to)) :
                            SubSeq(from, 1, m) # SubSeq(to, 1, m)
    IN  [i \in 1..(Len(from) - common) |-> DotDot] \o SubSeq(to, common + 1, Len(to))

\* The entries fs.readdir returns for an existing directory, mapped as
\* listDirectory maps them
DirEntries(dir) ==
    LET names == { p \in ExistingDirs \cup ExistingFiles :
                       Len(p) = Len(dir) + 1 /\ IsPrefix(dir, p) }
        Entry(p) == [name |-> Last(p),
                     type |-> IF p \in ExistingDirs THEN "directory" ELSE "file",
                     path |-> RelativePath(NormalizeFrom(<<>>, REPO_PATH), p)]
    IN  { Entry(p) : p \in names }

(***************************************************************************)
(* readFile and listDirectory.  Each returns                               *)
(*   [threw, value, touched]: threw with the error message in value, or    *)
(*   the value read; touched is the set of paths handed to fs.             *)
(***************************************************************************)
ReadFile(p) ==
    LET resolved == ResolvePath(p) IN
    IF ~PassesSandboxCheck(p)
    THEN [threw |-> TRUE, value |-> <<"FilePathOutsideRepository">>, touched |-> {}]
    ELSE IF resolved \in ExistingFiles
         THEN [threw |-> FALSE, value |-> <<"FileBody">>, touched |-> {resolved}]
         ELSE IF resolved \in ExistingDirs
              THEN [threw |-> TRUE, value |-> <<"EISDIR">>, touched |-> {resolved}]
              ELSE [threw |-> TRUE, value |-> <<"ENOENT">>, touched |-> {resolved}]

ListDirectory(p) ==
    LET resolved == ResolvePath(p) IN
    IF ~PassesSandboxCheck(p)
    THEN [threw |-> TRUE, value |-> <<"DirectoryPathOutsideRepository">>, touched |-> {}]
    ELSE IF resolved \in ExistingDirs
         THEN [threw |-> FALSE, value |-> DirEntries(resolved), touched |-> {resolved}]
         ELSE IF resolved \in ExistingFiles
              THEN [threw |-> TRUE, value |-> <<"ENOTDIR">>, touched |-> {resolved}]
              ELSE [threw |-> TRUE, value |-> <<"ENOENT">>, touched |-> {resolved}]

(***************************************************************************)
(* executeCommand: Promise.race of the subprocess and the timer.           *)
(* An outcome is what settles the race first:                              *)
(*   exit0      the subprocess ended with status 0                         *)
(*   exitN      it ended with a nonzero status (execAsync rejects)         *)
(*   spawnFail  it could not be started (execAsync rejects)                *)
(*   timeout    the timer fired first                                      *)
(***************************************************************************)
ExecOutcomes == {"exit0", "exitN", "spawnFail", "timeout"}

\* error.message of the rejection
ExecErrorMessage(outcome, stderr) ==
    CASE outcome = "exitN" -> <<"CommandFailed">> \o stderr
      [] outcome = "spawnFail" -> <<"SpawnError">>
      [] outcome = "timeout" -> <<"CommandTimeout">>

\* A catch that reports the stderr of the subprocess instead of error.message
ExecuteCommandResultRawStderr(outcome, stdout, stderr) ==
    IF outcome = "exit0"
    THEN [stdout |-> stdout, stderr |-> stderr, success |-> TRUE]
    ELSE [stdout |-> <<>>, stderr |-> stderr, success |-> FALSE]

\* The record executeCommand returns
ExecuteCommandResult(outcome, stdout, stderr) ==
    IF outcome = "exit0"
    THEN [stdout |-> stdout, stderr |-> stderr, success |-> TRUE]
    ELSE [stdout |-> <<>>, stderr |-> ExecErrorMessage(outcome, stderr), success |-> FALSE]

(***************************************************************************)
(* Tool calls and tool results (executeToolCall of both services).         *)
(* A tool call is [id, name, args]; args is what JSON.parse makes of the   *)
(* arguments string: [json |-> "bad"] (not decodable), [json |-> "null"]   *)
(* (the JSON value null) or [json |-> "obj", f |-> <record of fields>].    *)
(* A JSON object is a record; a field that is undefined is not in its      *)
(* domain, as after JSON.stringify.                                        *)
(***************************************************************************)
Kinds == {"rca", "tc"}

\* obj.key of a JSON object whose values are texts
Get(obj, key) == IF key \in DOMAIN obj THEN obj[key] ELSE Undefined

\* A tool result that loses the identifier of its call
ToolMessageWithoutId(tc, payload) ==
    [tool_call_id |-> <<0, 0>>, role |-> "tool", name |-> tc.name, payload |-> payload]

\* The tool-result message executeToolCall returns
ToolMessage(tc, payload) ==
    [tool_call_id |-> tc.id, role |-> "tool", name |-> tc.name, payload |-> payload]

\* rca-service.js case 'finish': the object handed to JSON.stringify
RcaFinishPayload(f) ==
    [k \in (DOMAIN f \cap {"summary", "root_cause", "recommended_fix"})
              \cup {"analysis_details"} |->
        IF k = "analysis_details"
        THEN (IF Truthy(Get(f, "analysis_details")) THEN f.analysis_details ELSE <<>>)
        ELSE f[k]]

\* test-cases-service.js case 'finish'
TcFinishPayload(f) ==
    [k \in DOMAIN f \cap {"test_cases", "summary", "test_coverage"} |-> f[k]]

\* The part of executeToolCall inside try/catch, for every tool but a started
\* 'exec': [payload, touched]
ToolOutcome(kind, tc) ==
    LET a == tc.args
        fail(msg) == [payload |-> [error |-> msg], touched |-> {}]
    IN
    IF tc.name \notin {"read_file", "exec", "list_directory", "finish"}
    THEN fail(<<"UnknownTool">>)
    ELSE IF a.json = "null" THEN fail(<<"TypeError">>)
    ELSE IF tc.name = "read_file"
    THEN IF "file_path" \notin DOMAIN a.f THEN fail(<<"TypeError">>)
         ELSE LET r == ReadFile(a.f.file_path) IN
              IF r.threw THEN [payload |-> [error |-> r.value], touched |-> r.touched]
              ELSE [payload |-> [content |-> r.value, file_path |-> a.f.file_path],
                    touched |-> r.touched]
    ELSE IF tc.name = "list_directory"
    THEN IF "dir_path" \notin DOMAIN a.f THEN fail(<<"TypeError">>)
         ELSE LET r == ListDirectory(a.f.dir_path) IN
              IF r.threw THEN [payload |-> [error |-> r.value], touched |-> r.touched]
              ELSE [payload |-> [items |-> r.value], touched |-> r.touched]
    ELSE IF tc.name = "finish"
    THEN [payload |-> IF kind = "rca" THEN RcaFinishPayload(a.f) ELSE TcFinishPayload(a.f),
          touched |-> {}]
    ELSE fail(<<"TypeError">>)

\* JSON.parse(args) at the top of executeToolCall, outside its try
ArgsDecodable(tc) == tc.args.json # "bad"

\* exec is started (the subprocess and the timer) when the arguments are an object
StartsExec(tc) == tc.name = "exec" /\ tc.args.json = "obj"

(***************************************************************************)
(* Terminal results                                                        *)
(***************************************************************************)
\* performRCA, lines 305-316: the result made of the 'finish' tool result
RcaResultFromFinish(finishData) ==
    LET summary == Get(finishData, "summary")
        rootCause == Get(finishData, "root_cause")
        fix == Get(finishData, "recommended_fix")
        det == Get(finishData, "analysis_details")
        detailsSection == IF Truthy(det) THEN <<"AdditionalDetailsH">> \o det ELSE <<>>
    IN  [summary |-> summary,
         rootCause |-> rootCause,
         recommendedFix |-> fix,
         details |-> IF Truthy(det) THEN det ELSE <<>>,
         fullResponse |-> <<"RcaH", "SummaryH3">> \o summary \o <<"RootCauseH3">>
                          \o rootCause \o <<"FixH3">> \o fix \o detailsSection]

\* performRCA, lines 328-344: the result extracted from a text response;
\* None when a section is missing
RcaResultFromText(content) ==
    LET summaryMatch == MatchSection(content, "SumH")
        rootCauseMatch == MatchSection(content, "RcH")
        recommendedFixMatch == MatchSection(content, "FixH")
    IN  IF summaryMatch # None /\ rootCauseMatch # None /\ recommendedFixMatch # None
        THEN Some([summary |-> Trim(summaryMatch[1]),
                   rootCause |-> Trim(rootCauseMatch[1]),
                   recommendedFix |-> Trim(recommendedFixMatch[1]),
                   details |-> content,
                   fullResponse |-> content])
        ELSE None

IsAssistantWithContent(msg) == msg.role = "assistant" /\ Truthy(msg.content)

IsToolMsg(msg) == msg.role = "tool"

\* Array.prototype.slice(-n)
SliceLast(s, n) == SubSeq(s, Len(s) - Min(n, Len(s)) + 1, Len(s))

\* Array.prototype.slice(0, n)
SliceFirst(s, n) == SubSeq(s, 1, Min(n, Len(s)))

SUBSTRING_LIMIT == 500

LAST_MESSAGES == 5

STEPS_SHOWN == 10

\* lines 376-383: parsed.action || parsed.tool || 'investigation'
StepName(msg) ==
    IF "action" \in DOMAIN msg.payload /\ Truthy(msg.payload.action)
    THEN msg.payload.action
    ELSE IF "tool" \in DOMAIN msg.payload /\ Truthy(msg.payload.tool)
         THEN msg.payload.tool
         ELSE <<"investigation">>

\* performRCA, lines 352-421: the best-effort result on exhaustion
RcaFallback(messages) ==
    LET withText == SelectSeq(messages, IsAssistantWithContent)
        conversationSummary ==
            Join([i \in 1..Len(withText) |-> withText[i].content], <<"Blank">>)
        summaryMatch == MatchSection(conversationSummary, "SumH")
        rootCauseMatch == MatchLoose(conversationSummary, {"RcH", "RcColon"})
        recommendedFixMatch == MatchLoose(conversationSummary, {"FixH", "FixColon"})
        toolMsgs == SelectSeq(messages, IsToolMsg)
        toolCalls == [i \in 1..Len(toolMsgs) |-> StepName(toolMsgs[i])]
        shown == SliceFirst(toolCalls, STEPS_SHOWN)
        summary ==
            IF summaryMatch # None THEN Trim(summaryMatch[1])
            ELSE <<"MaxIterationsReached">>
                 \o (IF Len(toolCalls) > 0
                     THEN <<"InvestigationStepsTaken">> \o Flatten(shown)
                          \o (IF Len(toolCalls) > STEPS_SHOWN
                              THEN <<"AndMoreSteps">> ELSE <<>>)
                     ELSE <<>>)
        rootCause ==
            IF rootCauseMatch # None
            THEN Substring(Trim(rootCauseMatch[1]), SUBSTRING_LIMIT)
            ELSE <<"RootCauseIncomplete", "DidNotConverge">>
        recommendedFix ==
            IF recommendedFixMatch # None
            THEN Substring(Trim(recommendedFixMatch[1]), SUBSTRING_LIMIT)
            ELSE <<"FurtherInvestigation", "ReviewDetails">>
        lastFewMessages ==
            SelectSeq(SliceLast(messages, LAST_MESSAGES), IsAssistantWithContent)
        details ==
            <<"IncompleteNote", "InvestigationContext">>
            \o Join([i \in 1..Len(lastFewMessages) |->
                        Substring(lastFewMessages[i].content, SUBSTRING_LIMIT)],
                    <<"Rule">>)
    IN  [summary |-> summary,
         rootCause |-> rootCause,
         recommendedFix |-> recommendedFix,
         details |-> details,
         fullResponse |-> <<"RcaH", "SummaryH3">> \o summary \o <<"RootCauseH3">>
                          \o rootCause \o <<"FixH3">> \o recommendedFix
                          \o <<"NotesH3">> \o details,
         incomplete |-> TRUE]

\* formatTestCasesResponse
FormatCase(c) ==
    <<"CaseH">> \o Get(c, "title")
    \o <<"TypeL">> \o Get(c, "type") \o <<"TargetL">> \o Get(c, "target")
    \o <<"PriorityL">> \o Get(c, "priority")
    \o <<"DescriptionL">> \o Get(c, "description")
    \o (IF "test_steps" \in DOMAIN c THEN <<"StepsL">> \o c.test_steps ELSE <<>>)
    \o <<"ExpectedL">> \o Get(c, "expected_result")
    \o (IF "related_files" \in DOMAIN c /\ Len(c.related_files) > 0
        THEN <<"RelatedL">> \o c.related_files ELSE <<>>)
    \o <<"Rule">>

FormatTestCasesResponse(data) ==
    <<"TcSummaryH">> \o Get(data, "summary")
    \o <<"TcCoverageH">> \o Get(data, "test_coverage") \o <<"TcGeneratedH">>
    \o (IF "test_cases" \in DOMAIN data
        THEN Flatten([i \in 1..Len(data.test_cases) |-> FormatCase(data.test_cases[i])])
        ELSE <<>>)

\* The fields the schema of 'finish' lists as required
RequiredFinishFields(kind) ==
    IF kind = "rca" THEN {"summary", "root_cause", "recommended_fix"}
    ELSE {"test_cases", "summary", "test_coverage"}

\* A result record that hands out the test cases last first
TcResultFromFinishReordered(finishData) ==
    LET cases == IF "test_cases" \in DOMAIN finishData THEN finishData.test_cases ELSE <<>>
    IN  [testCases |-> [i \in 1..Len(cases) |-> cases[Len(cases) + 1 - i]],
         summary |-> IF Truthy(Get(finishData, "summary")) THEN finishData.summary ELSE <<>>,
         testCoverage |-> IF Truthy(Get(finishData, "test_coverage"))
                          THEN finishData.test_coverage ELSE <<>>,
         fullResponse |-> FormatTestCasesResponse(finishData)]

\* generateTestCases, lines 318-326
TcResultFromFinish(finishData) ==
    [testCases |-> IF "test_cases" \in DOMAIN finishData THEN finishData.test_cases ELSE <<>>,
     summary |-> IF Truthy(Get(finishData, "summary")) THEN finishData.summary ELSE <<>>,
     testCoverage |-> IF Truthy(Get(finishData, "test_coverage"))
                      THEN finishData.test_coverage ELSE <<>>,
     fullResponse |-> FormatTestCasesResponse(finishData)]

\* parseTestCasesFromMarkdown: one record per numbered heading ("Case" token)
\* that has a title line
RECURSIVE ParseTestCasesFromMarkdown(_)
ParseTestCasesFromMarkdown(content) ==
    LET i == FirstIn(content, {"Case"}) IN
    IF i = 0 THEN <<>>
    ELSE <<[title |-> <<"CaseTitle">>, type |-> <<"unit_test">>, target |-> <<"Unknown">>,
            description |-> <<>>, test_steps |-> <<>>, expected_result |-> <<>>,
            priority |-> <<"medium">>, related_files |-> <<>>]>>
         \o ParseTestCasesFromMarkdown(SubSeq(content, i + 1, Len(content)))

\* generateTestCases, lines 338-354
TcResultFromText(content) ==
    LET testCasesMatch == MatchSection(content, "TcH")
        summaryMatch == MatchSection(content, "SumH")
        coverageMatch == MatchSection(content, "CovH")
    IN  IF testCasesMatch # None \/ summaryMatch # None
        THEN Some([testCases |-> ParseTestCasesFromMarkdown(content),
                   summary |-> IF summaryMatch # None THEN Trim(summaryMatch[1]) ELSE <<>>,
                   testCoverage |-> IF coverageMatch # None
                                    THEN Trim(coverageMatch[1]) ELSE <<>>,
                   fullResponse |-> content])
        ELSE None

(***************************************************************************)
(* What the completion service may answer                                  *)
(***************************************************************************)
ObjArgs(f) == [json |-> "obj", f |-> f]

CallRead(p) == [name |-> "read_file", args |-> ObjArgs([file_path |-> p])]

CallList(p) == [name |-> "list_directory", args |-> ObjArgs([dir_path |-> p])]

CallExec == [name |-> "exec", args |-> ObjArgs([command |-> <<"Cmd">>])]

CallBogus == [name |-> "search_web", args |-> ObjArgs([query |-> <<"Txt">>])]

CallBadArgs == [name |-> "read_file", args |-> [json |-> "bad"]]

CallFinish(f) == [name |-> "finish", args |-> ObjArgs(f)]

CallFinishNull == [name |-> "finish", args |-> [json |-> "null"]]

RcaArgsA ==
    [summary |-> <<"S1">>, root_cause |-> <<"R1">>, recommended_fix |-> <<"F1">>,
     analysis_details |-> <<"D1">>]

RcaArgsB ==
    [summary |-> <<"S2">>, root_cause |-> <<"R2">>, recommended_fix |-> <<"F2">>,
     analysis_details |-> <<"D2">>]

RcaArgsNoDetails ==
    [summary |-> <<"S1">>, root_cause |-> <<"R1">>, recommended_fix |-> <<"F1">>]

RcaArgsNoSummary == [root_cause |-> <<"R1">>, recommended_fix |-> <<"F1">>]

Case1 ==
    [title |-> <<"T1">>, type |-> <<"unit_test">>, target |-> <<"G1">>,
     description |-> <<"Txt">>, test_steps |-> <<"Step1", "Step2">>,
     expected_result |-> <<"E1">>, priority |-> <<"high">>,
     related_files |-> <<"src/a">>]

Case2 ==
    [title |-> <<"T2">>, type |-> <<"job_test">>, target |-> <<"G2">>,
     description |-> <<"Txt">>, test_steps |-> <<"Step3">>,
     expected_result |-> <<"E2">>, priority |-> <<"low">>]

TcArgsA == [test_cases |-> <<Case1, Case2>>, summary |-> <<"S1">>, test_coverage |-> <<"C1">>]

Case3 ==
    [title |-> <<"T3">>, type |-> <<"workflow_test">>, target |-> <<"G3">>,
     description |-> <<"Txt">>, test_steps |-> <<"Step3", "Step1", "Step3">>,
     expected_result |-> <<"E3">>, priority |-> <<"critical">>,
     related_files |-> <<"src/b", "src/a">>]

TcArgsB ==
    [test_cases |-> <<Case3, Case1>>, summary |-> <<"S2">>, test_coverage |-> <<"C2">>]

TcArgsEmpty == [test_cases |-> <<>>, summary |-> <<"S1">>, test_coverage |-> <<"C1">>]

TcArgsNoCases == [summary |-> <<"S1">>, test_coverage |-> <<"C1">>]

FinishArgs(kind) ==
    IF kind = "rca" THEN <<RcaArgsA, RcaArgsB, RcaArgsNoDetails, RcaArgsNoSummary>>
    ELSE <<TcArgsA, TcArgsB, TcArgsEmpty, TcArgsNoCases>>

Turn(content, calls) == [content |-> content, calls |-> calls]

\* The filler answer of an exploring model: list the repository root
FillerResponse == Turn(<<>>, <<CallList(PathRoot)>>)

\* Answers with tool calls
ToolTurns(kind) ==
    LET fa == FinishArgs(kind) IN
    { Turn(<<"Txt">>, <<CallRead(PathAbsIn)>>),
      Turn(<<>>, <<CallRead(PathMissing), CallList(PathUp)>>),
      Turn(<<>>, <<CallRead(PathSibling)>>),
      Turn(<<>>, <<CallRead(PathAbsOut), CallList(PathSrc)>>),
      Turn(<<>>, <<CallExec>>),
      Turn(<<>>, <<CallBogus, CallRead(PathIn)>>),
      Turn(<<>>, <<CallBadArgs>>),
      Turn(<<>>, <<CallRead(PathIn), CallBadArgs>>),
      Turn(<<>>, <<CallFinish(fa[1])>>),
      Turn(<<"Txt">>, <<CallFinish(fa[1]), CallFinish(fa[2])>>),
      Turn(<<>>, <<CallFinish(fa[3])>>),
      Turn(<<>>, <<CallFinish(fa[4])>>),
      Turn(<<>>, <<CallFinish(fa[2]), CallRead(PathIn)>>),
      Turn(<<>>, <<CallExec, CallFinish(fa[1])>>),
      Turn(<<>>, <<CallFinishNull>>) }

\* Answers without tool calls
TextTurns ==
    { Turn(<<"Txt">>, <<>>),
      Turn(<<"SumH", "Txt", "RcH", "Txt", "Blank", "Txt", "FixH", "LongTxt">>, <<>>),
      Turn(<<"SumH", "RcH", "Blank", "FixH">>, <<>>),
      Turn(<<"SumH">>, <<>>),
      Turn(<<"Txt", "RcColon", "LongTxt", "Blank", "FixColon">>, <<>>),
      Turn(<<"TcH", "Case", "Txt", "Case", "CovH", "Txt">>, <<>>),
      Turn(<<"Txt", "SumH", "Txt">>, <<>>) }

RcaResponses == {FillerResponse} \cup ToolTurns("rca") \cup TextTurns

TcResponses == {FillerResponse} \cup ToolTurns("tc") \cup TextTurns

Responses(kind) == IF kind = "rca" THEN RcaResponses ELSE TcResponses

\* The identifiers the service gives the tool calls of the answer to call n:
\* unique within the conversation
WithIds(calls, n) ==
    [i \in 1..Len(calls) |-> [id |-> <<n, i>>, name |-> calls[i].name, args |-> calls[i].args]]

\* How the subprocess of exec may settle, and what it has printed by then
SubprocessSettlements ==
    { [outcome |-> "exit0", stdout |-> <<"Out">>, stderr |-> <<"Warn">>],
      [outcome |-> "exitN", stdout |-> <<"Out">>, stderr |-> <<>>],
      [outcome |-> "exitN", stdout |-> <<>>, stderr |-> <<"Warn">>],
      [outcome |-> "spawnFail", stdout |-> <<>>, stderr |-> <<>>] }

(***************************************************************************)
(* Relevant-file discovery: extractKeywords and findRelevantFilesWithGrep  *)
(* of github-service.js.  Strings are sequences of characters.  The        *)
(* repository is the sequence of its regular files in the order in which   *)
(* find and grep -r enumerate them; a file is [dir, name, content] with    *)
(* dir the directories from the root down to it.                           *)
(***************************************************************************)
UpperCase == <<"A", "B", "C", "D", "E", "F", "G", "H", "I", "J", "K", "L", "M", "N",
              "O", "P", "Q", "R", "S", "T", "U", "V", "W", "X", "Y", "Z">>

LowerCase == <<"a", "b", "c", "d", "e", "f", "g", "h", "i", "j", "k", "l", "m", "n",
              "o", "p", "q", "r", "s", "t", "u", "v", "w", "x", "y", "z">>

Digits == <<"0", "1", "2", "3", "4", "5", "6", "7", "8", "9">>

\* String.prototype.toLowerCase
ToLowerCase(s) ==
    [i \in 1..Len(s) |->
        IF \E j \in 1..Len(UpperCase) : UpperCase[j] = s[i]
        THEN LowerCase[CHOOSE j \in 1..Len(UpperCase) : UpperCase[j] = s[i]]
        ELSE s[i]]

\* The characters \w matches
WordChars ==
    { UpperCase[i] : i \in 1..Len(UpperCase) } \cup { LowerCase[i] : i \in 1..Len(LowerCase) }
    \cup { Digits[i] : i \in 1..Len(Digits) } \cup {"_"}

\* .replace(/[^\w\s]/g, ' ').split(/\s+/): the runs of word characters (the
\* empty strings split may add are dropped by the length filter that follows)
RECURSIVE SplitWords(_, _)
SplitWords(s, word) ==
    LET done == IF word = <<>> THEN <<>> ELSE <<word>> IN
    IF s = <<>> THEN done
    ELSE IF Head(s) \in WordChars THEN SplitWords(Tail(s), Append(word, Head(s)))
         ELSE done \o SplitWords(Tail(s), <<>>)

stopWords ==
    { <<"t", "h", "e">>, <<"a">>, <<"a", "n">>, <<"a", "n", "d">>, <<"o", "r">>,
      <<"b", "u", "t">>, <<"i", "n">>, <<"o", "n">>, <<"a", "t">>, <<"t", "o">>,
      <<"f", "o", "r">>, <<"o", "f">>, <<"w", "i", "t", "h">>, <<"i", "s">>,
      <<"a", "r", "e">>, <<"w", "a", "s">>, <<"w", "e", "r", "e">>, <<"b", "e">>,
      <<"b", "e", "e", "n">>, <<"b", "e", "i", "n", "g">>, <<"h", "a", "v", "e">>,
      <<"h", "a", "s">>, <<"h", "a", "d">>, <<"d", "o">>, <<"d", "o", "e", "s">>,
      <<"d", "i", "d">>, <<"w", "i", "l", "l">>, <<"w", "o", "u", "l", "d">>,
      <<"s", "h", "o", "u", "l", "d">>, <<"c", "o", "u", "l", "d">>,
      <<"m", "a", "y">>, <<"m", "i", "g", "h", "t">>, <<"m", "u", "s", "t">>,
      <<"c", "a", "n">>, <<"t", "h", "i", "s">>, <<"t", "h", "a", "t">>,
      <<"t", "h", "e", "s", "e">>, <<"t", "h", "o", "s", "e">>, <<"i">>,
      <<"y", "o", "u">>, <<"h", "e">>, <<"s", "h", "e">>, <<"i", "t">>, <<"w", "e">>,
      <<"t", "h", "e", "y">>, <<"n", "o", "t">>, <<"n", "o">>,
      <<"w", "h", "e", "n">>, <<"w", "h", "e", "r", "e">>, <<"w", "h", "a", "t">>,
      <<"w", "h", "i", "c", "h">>, <<"w", "h", "o">>, <<"h", "o", "w">>,
      <<"w", "h", "y">>, <<"i", "s", "s", "u", "e">>,
      <<"p", "r", "o", "b", "l", "e", "m">>, <<"e", "r", "r", "o", "r">>,
      <<"b", "u", "g">>, <<"f", "i", "x">>, <<"c", "r", "e", "a", "t", "e">>,
      <<"t", "i", "c", "k", "e", "t">> }

MIN_KEYWORD_LENGTH == 3

\* A filter on the length alone
IsLongWord(word) == Len(word) >= MIN_KEYWORD_LENGTH

IsKeyword(word) == Len(word) >= MIN_KEYWORD_LENGTH /\ word \notin stopWords

\* [...new Set(words)]: the first occurrence of each element, in order
Unique(s) ==
    LET IsFirst(i) == \A j \in 1..(i - 1) : s[j] # s[i]
        kept == SelectSeq([i \in 1..Len(s) |-> i], IsFirst)
    IN  [k \in 1..Len(kept) |-> s[kept[k]]]

\* extractKeywords; the empty description also stands for null
extractKeywords(issueDescription) ==
    IF issueDescription = <<>> THEN <<>>
    ELSE Unique(SelectSeq(SplitWords(ToLowerCase(issueDescription), <<>>), IsKeyword))

codeExtensions ==
    { <<".", "j", "s">>, <<".", "j", "s", "x">>, <<".", "t", "s">>,
      <<".", "t", "s", "x">>, <<".", "p", "y">>, <<".", "j", "a", "v", "a">>,
      <<".", "c", "p", "p">>, <<".", "c">>, <<".", "h">>, <<".", "g", "o">>,
      <<".", "r", "s">>, <<".", "r", "b">>, <<".", "p", "h", "p">>,
      <<".", "s", "w", "i", "f", "t">>, <<".", "k", "t">>,
      <<".", "s", "c", "a", "l", "a">>, <<".", "s", "h">>,
      <<".", "y", "a", "m", "l">>, <<".", "y", "m", "l">>,
      <<".", "j", "s", "o", "n">>, <<".", "x", "m", "l">>,
      <<".", "h", "t", "m", "l">>, <<".", "c", "s", "s">>,
      <<".", "s", "c", "s", "s">>, <<".", "v", "u", "e">>,
      <<".", "s", "v", "e", "l", "t", "e">>, <<".", "d", "a", "r", "t">>,
      <<".", "l", "u", "a">>, <<".", "s", "q", "l">>, <<".", "m", "d">> }

\* the --include patterns of the simple grep
simpleGrepExtensions ==
    { <<".", "j", "s">>, <<".", "j", "s", "x">>, <<".", "t", "s">>,
      <<".", "t", "s", "x">>, <<".", "p", "y">>, <<".", "r", "b">>,
      <<".", "j", "a", "v", "a">> }

\* the directories of the ! -path "*/<dir>/*" tests
excludedDirs ==
    { <<"n", "o", "d", "e", "_", "m", "o", "d", "u", "l", "e", "s">>,
      <<".", "g", "i", "t">>, <<"d", "i", "s", "t">>, <<"b", "u", "i", "l", "d">>,
      <<".", "n", "e", "x", "t">>, <<".", "c", "a", "c", "h", "e">> }

EndsWith(s, suffix) ==
    Len(suffix) <= Len(s) /\ SubSeq(s, Len(s) - Len(suffix) + 1, Len(s)) = suffix

\* find REPO_PATH -type f \( -name "*.js" -o ... \) ! -path "*/node_modules/*" ...
IsCodeFile(f) ==
    /\ \E ext \in codeExtensions : EndsWith(f.name, ext)
    /\ \A i \in 1..Len(f.dir) : f.dir[i] \notin excludedDirs

\* grep "<keyword>": the keyword (word characters only) occurs in the text
Contains(text, keyword) ==
    \E i \in 1..(Len(text) - Len(keyword) + 1) :
        SubSeq(text, i, i + Len(keyword) - 1) = keyword

\* path.relative(REPO_PATH, file)
RelativeFile(f) == Append(f.dir, f.name)

FIND_LIMIT_NO_KEYWORDS == 50

FIND_LIMIT == 100

SIMPLE_GREP_LIMIT == 20

RESULT_LIMIT == 50

\* A listing without the head -50 of the pipeline
ListCodeFilesUncapped(env) ==
    LET files == SelectSeq(env.repo, IsCodeFile)
    IN  [i \in 1..Len(files) |-> RelativeFile(files[i])]

\* lines 144-163: find ... | head -50, each line made relative; [] when the
\* command fails (env.findFails holds the numbers of the find commands of the
\* call that fail)
ListCodeFiles(env) ==
    IF 1 \in env.findFails THEN <<>>
    ELSE LET files == SliceFirst(SelectSeq(env.repo, IsCodeFile), FIND_LIMIT_NO_KEYWORDS)
         IN  [i \in 1..Len(files) |-> RelativeFile(files[i])]

\* A search that reports every candidate file, whatever it contains
KeywordMatchesAnyContent(env, keyword, n) ==
    LET files == SliceFirst(SelectSeq(env.repo, IsCodeFile), FIND_LIMIT)
    IN  [files |-> [i \in 1..Len(files) |-> RelativeFile(files[i])], greps |-> Len(files)]

\* lines 178-254, the body of the loop for the n-th keyword: the files found
\* for it, in the order found, and the number of grep commands run.
\* env.grepFails holds the files whose grep ends with an error or a timeout.
KeywordMatches(env, keyword, n) ==
    IF n \notin env.findFails
    THEN LET allCodeFiles == SliceFirst(SelectSeq(env.repo, IsCodeFile), FIND_LIMIT)
             searched == SliceFirst(allCodeFiles, FIND_LIMIT)
             Found(f) == Contains(f.content, keyword) /\ RelativeFile(f) \notin env.grepFails
             filesWithKeyword == SelectSeq(searched, Found)
         IN  [files |-> [i \in 1..Len(filesWithKeyword) |-> RelativeFile(filesWithKeyword[i])],
              greps |-> Len(searched)]
    ELSE \* grep -ril "<keyword>" REPO_PATH --include=... | head -20
         LET Found(f) == /\ \E ext \in simpleGrepExtensions : EndsWith(f.name, ext)
                         /\ Contains(ToLowerCase(f.content), ToLowerCase(keyword))
             files == SliceFirst(SelectSeq(env.repo, Found), SIMPLE_GREP_LIMIT)
         IN  [files |-> [i \in 1..Len(files) |-> RelativeFile(files[i])], greps |-> 1]

\* An accumulation into a list instead of a Set
AddAllKeepingDuplicates(relevantFiles, files) == relevantFiles \o files

\* files.forEach(file => relevantFiles.add(file)): a Set keeps insertion order
AddAll(relevantFiles, files) == Unique(relevantFiles \o files)

\* A loop that is left at the first keyword that finds a file
RECURSIVE SearchUntilFirstMatch(_, _, _)
SearchUntilFirstMatch(env, keywords, n) ==
    IF n = 0 THEN [files |-> <<>>, greps |-> 0]
    ELSE LET before == SearchUntilFirstMatch(env, keywords, n - 1)
             m == KeywordMatches(env, keywords[n], n)
         IN  IF before.files # <<>> THEN before
             ELSE [files |-> AddAll(before.files, m.files), greps |-> before.greps + m.greps]

\* The for loop over the keywords, up to keyword number n
RECURSIVE SearchKeywords(_, _, _)
SearchKeywords(env, keywords, n) ==
    IF n = 0 THEN [files |-> <<>>, greps |-> 0]
    ELSE LET before == SearchKeywords(env, keywords, n - 1)
             m == KeywordMatches(env, keywords[n], n)
         IN  [files |-> AddAll(before.files, m.files), greps |-> before.greps + m.greps]

\* findRelevantFilesWithGrep: [threw, error, files, greps] with greps the
\* number of grep commands it ran
findRelevantFilesWithGrep(env, issueDescription) ==
    LET keywords == extractKeywords(issueDescription)
        Throw(msg) == [threw |-> TRUE, error |-> msg, files |-> <<>>, greps |-> 0]
    IN  IF ~env.repoExists THEN Throw(<<"RepositoryNotFound">>)
        ELSE IF env.repo = <<>> THEN Throw(<<"CannotReadRepository", "RepositoryEmpty">>)
        ELSE IF Len(keywords) = 0
             THEN [threw |-> FALSE, error |-> <<>>, files |-> ListCodeFiles(env), greps |-> 0]
             ELSE LET found == SearchKeywords(env, keywords, Len(keywords))
                  IN  [threw |-> FALSE, error |-> <<>>,
                       files |-> SliceFirst(found.files, RESULT_LIMIT),
                       greps |-> found.greps]

(***************************************************************************)
(* The agent loop: performRCA and generateTestCases.                       *)
(* run is the state of one run:                                            *)
(*   kind          "rca" or "tc"                                           *)
(*   pc            "loop"             at the test of the while loop        *)
(*                 "await_completion" awaiting openai...create             *)
(*                 "tool"             about to call executeToolCall        *)
(*                 "await_exec"       awaiting executeCommand's race       *)
(*                 "returned" / "threw"  the run has ended                 *)
(*   iteration, messages, result, toolResults  the locals of the code      *)
(*                 (result is None for null, else Some(record))            *)
(*   toolIdx       index of the tool call the for loop is at               *)
(*   error         the message of the error thrown, when pc = "threw"      *)
(* and, recorded for the properties:                                       *)
(*   calls         completion-service calls made                           *)
(*   apiFailed     a completion-service call failed                        *)
(*   fsTouched     resolved paths handed to fs.readFile / fs.readdir       *)
(*   lastExec      outcome and return value of the last executeCommand     *)
(*   varied, variedAt  how many answers were not the filler, and the call  *)
(*                 that got the last of them                               *)
(***************************************************************************)
MAX_ITERATIONS_RCA == 30

MAX_ITERATIONS_TC == 20

MIN_TEXT_ITERATION == 5

\* A budget that is one iteration short
MaxIterationsOneShort(kind) ==
    IF kind = "rca" THEN MAX_ITERATIONS_RCA - 1 ELSE MAX_ITERATIONS_TC - 1

MAX_ITERATIONS(kind) == IF kind = "rca" THEN MAX_ITERATIONS_RCA ELSE MAX_ITERATIONS_TC

\* Answers other than the filler that the service gives in one run, in a row
MaxVaried == 1

SystemMessage(kind) ==
    [role |-> "system", content |-> IF kind = "rca" THEN <<"RcaPrompt">> ELSE <<"QaPrompt">>]

InitRun(kind) ==
    [kind |-> kind, pc |-> "loop", iteration |-> 0,
     messages |-> <<SystemMessage(kind)>>, result |-> None,
     toolResults |-> <<>>, toolIdx |-> 0, error |-> <<>>,
     calls |-> 0, apiFailed |-> FALSE, fsTouched |-> {}, lastExec |-> <<>>,
     varied |-> 0, variedAt |-> 0]

\* The wrapped error of the catch around one iteration
IterationError(kind, cause) ==
    (IF kind = "rca" THEN <<"RcaInvestigationFailed">> ELSE <<"TestCaseGenerationFailed">>)
    \o cause

\* The tool calls of the assistant message being worked on
CurrentCalls(r) == Last(r.messages).tool_calls

ResultFromFinish(kind, finishData) ==
    IF kind = "rca" THEN RcaResultFromFinish(finishData) ELSE TcResultFromFinish(finishData)

ResultFromText(kind, content) ==
    IF kind = "rca" THEN RcaResultFromText(content) ELSE TcResultFromText(content)

\* A for loop that puts the newest tool result first
AfterToolResultNewestFirst(r, toolResult, touched) ==
    LET tc == CurrentCalls(r)[r.toolIdx]
        results == <<toolResult>> \o r.toolResults
        res == IF tc.name = "finish"
               THEN Some(ResultFromFinish(r.kind, toolResult.payload))
               ELSE r.result
        last == r.toolIdx = Len(CurrentCalls(r))
    IN  [r EXCEPT !.result = res,
                  !.fsTouched = @ \cup touched,
                  !.toolResults = IF last THEN <<>> ELSE results,
                  !.messages = IF last THEN @ \o results ELSE @,
                  !.toolIdx = IF last THEN 0 ELSE @ + 1,
                  !.pc = IF last THEN "loop" ELSE "tool"]

\* A for loop that is left at the 'finish' call
AfterToolResultLeavingAtFinish(r, toolResult, touched) ==
    LET tc == CurrentCalls(r)[r.toolIdx]
        results == Append(r.toolResults, toolResult)
        res == IF tc.name = "finish"
               THEN Some(ResultFromFinish(r.kind, toolResult.payload))
               ELSE r.result
        last == r.toolIdx = Len(CurrentCalls(r)) \/ tc.name = "finish"
    IN  [r EXCEPT !.result = res,
                  !.fsTouched = @ \cup touched,
                  !.toolResults = IF last THEN <<>> ELSE results,
                  !.messages = IF last THEN @ \o results ELSE @,
                  !.toolIdx = IF last THEN 0 ELSE @ + 1,
                  !.pc = IF last THEN "loop" ELSE "tool"]

\* The body of the for loop after executeToolCall has returned toolResult for
\* call number r.toolIdx, and the push of the results after the last call
AfterToolResult(r, toolResult, touched) ==
    LET tc == CurrentCalls(r)[r.toolIdx]
        results == Append(r.toolResults, toolResult)
        res == IF tc.name = "finish"
               THEN Some(ResultFromFinish(r.kind, toolResult.payload))
               ELSE r.result
        last == r.toolIdx = Len(CurrentCalls(r))
    IN  [r EXCEPT !.result = res,
                  !.fsTouched = @ \cup touched,
                  !.toolResults = IF last THEN <<>> ELSE results,
                  !.messages = IF last THEN @ \o results ELSE @,
                  !.toolIdx = IF last THEN 0 ELSE @ + 1,
                  !.pc = IF last THEN "loop" ELSE "tool"]

\* A loop test that goes on after a result was produced
LoopConditionIgnoresResult(r) == r.iteration < MAX_ITERATIONS(r.kind)

\* while (iteration < MAX_ITERATIONS && !result)
LoopCondition(r) == r.iteration < MAX_ITERATIONS(r.kind) /\ r.result = None

\* ... { iteration++; ... await openai.chat.completions.create(...)
IssueCompletion ==
    /\ run.pc = "loop"
    /\ LoopCondition(run)
    /\ run' = [run EXCEPT !.iteration = @ + 1, !.calls = @ + 1, !.pc = "await_completion"]
    /\ UNCHANGED wf

\* An end of the run that hands out a best-effort result for both loops
AfterLoopBestEffort(r) ==
    IF r.result # None THEN [r EXCEPT !.pc = "returned"]
    ELSE [r EXCEPT !.pc = "returned",
                   !.result = Some(IF r.kind = "rca" THEN RcaFallback(r.messages)
                                   ELSE TcResultFromFinish([summary |-> <<"Partial">>]))]

\* The code after the loop: the result, the RCA fallback, or the error of
\* generateTestCases
AfterLoop(r) ==
    IF r.result # None THEN [r EXCEPT !.pc = "returned"]
    ELSE IF r.kind = "rca"
         THEN [r EXCEPT !.result = Some(RcaFallback(r.messages)), !.pc = "returned"]
         ELSE [r EXCEPT !.pc = "threw", !.error = <<"TestCaseGenerationIncomplete">>]

LoopExit ==
    /\ run.pc = "loop"
    /\ ~LoopCondition(run)
    /\ run' = AfterLoop(run)
    /\ UNCHANGED wf

\* A text branch that looks for the sections from the first iteration on
TextInspectedAtOnce(r, content) == Truthy(content)

\* if (assistantMessage.content && iteration > 5)
TextInspected(r, content) == Truthy(content) /\ r.iteration > MIN_TEXT_ITERATION

\* The completion service answers: the answer is pushed; without tool calls
\* the text branch runs
CompletionReturns ==
    /\ run.pc = "await_completion"
    /\ \E resp \in Responses(run.kind) :
          LET isFiller == resp = FillerResponse
              msg == [role |-> "assistant", content |-> resp.content,
                      tool_calls |-> WithIds(resp.calls, run.calls)]
              r1 == [run EXCEPT !.messages = Append(@, msg),
                                !.varied = IF isFiller THEN @ ELSE @ + 1,
                                !.variedAt = IF isFiller THEN @ ELSE run.calls]
          IN  /\ isFiller \/ ( /\ run.varied < MaxVaried
                               /\ run.varied = 0 \/ run.variedAt = run.calls - 1 )
              /\ run' =
                    IF Len(resp.calls) > 0
                    THEN [r1 EXCEPT !.toolResults = <<>>, !.toolIdx = 1, !.pc = "tool"]
                    ELSE IF TextInspected(run, resp.content)
                              /\ ResultFromText(run.kind, resp.content) # None
                         THEN [r1 EXCEPT !.result = ResultFromText(run.kind, resp.content),
                                         !.pc = "loop"]
                         ELSE [r1 EXCEPT !.pc = "loop"]
    /\ UNCHANGED wf

\* A catch that logs the failure and lets the loop go on
OnCompletionErrorSwallowed(r) == [r EXCEPT !.pc = "loop", !.apiFailed = TRUE]

\* A catch that starts the conversation over before it throws
OnCompletionErrorResettingConversation(r) ==
    [r EXCEPT !.pc = "threw", !.apiFailed = TRUE,
              !.error = IterationError(r.kind, <<"ApiError">>),
              !.messages = <<Head(@)>>]

\* catch (error) { throw new Error(`... failed: ${error.message}`) }
OnCompletionError(r) ==
    [r EXCEPT !.pc = "threw", !.apiFailed = TRUE,
              !.error = IterationError(r.kind, <<"ApiError">>)]

\* The completion service fails
CompletionFails ==
    /\ run.pc = "await_completion"
    /\ run' = OnCompletionError(run)
    /\ UNCHANGED wf

\* executeToolCall for the next tool call of the turn
ExecuteToolCall ==
    /\ run.pc = "tool"
    /\ LET tc == CurrentCalls(run)[run.toolIdx] IN
       run' = IF ~ArgsDecodable(tc)
              THEN [run EXCEPT !.pc = "threw",
                               !.error = IterationError(run.kind, <<"SyntaxError">>)]
              ELSE IF StartsExec(tc)
                   THEN [run EXCEPT !.pc = "await_exec"]
                   ELSE LET o == ToolOutcome(run.kind, tc) IN
                        AfterToolResult(run, ToolMessage(tc, o.payload), o.touched)
    /\ UNCHANGED wf

\* executeCommand's race is settled; the 'exec' tool result follows
ExecSettles(s) ==
    LET tc == CurrentCalls(run)[run.toolIdx]
        result == ExecuteCommandResult(s.outcome, s.stdout, s.stderr)
        r1 == [run EXCEPT !.lastExec = Some([outcome |-> s.outcome, result |-> result])]
    IN  run' = AfterToolResult(r1, ToolMessage(tc, result), {}) /\ UNCHANGED wf

\* The subprocess settles first
SubprocessSettles ==
    /\ run.pc = "await_exec"
    /\ \E s \in SubprocessSettlements : ExecSettles(s)

\* An executeCommand that awaits the subprocess alone
RaceWithoutTimer(r) == FALSE

\* The timer of Promise.race is pending while the race is
RaceTimerPending(r) == r.pc = "await_exec"

\* The timer of the race fires first
TimerFires ==
    /\ RaceTimerPending(run)
    /\ ExecSettles([outcome |-> "timeout", stdout |-> <<>>, stderr |-> <<>>])

\* No run in progress
IdleRun == [pc |-> "idle"]

\* No workflow in progress
IdleWorkflow == [pc |-> "idle"]

Init ==
    /\ run \in { InitRun(kind) : kind \in Kinds }
    /\ wf = IdleWorkflow

Next ==
    \/ IssueCompletion
    \/ LoopExit
    \/ CompletionReturns
    \/ CompletionFails
    \/ ExecuteToolCall
    \/ SubprocessSettles
    \/ TimerFires

Spec == Init /\ [][Next]_vars

\* The timer of setTimeout fires unless the race is settled before
FairSpec == Spec /\ WF_vars(TimerFires)

\* Every awaited call settles and the code between two awaits runs on: some
\* step is taken as long as one is possible
TerminationSpec == Spec /\ WF_vars(Next)

(***************************************************************************)
(* The workflow: processSlackEvent of job-processor.js.                    *)
(* wf holds its arguments (githubRepo: whether one was given; description, *)
(* attachments), the environment of the discovery (env), its locals        *)
(* (relevantFiles, issueKey, rcaResult, testCasesResult, each None while   *)
(* null) and, recorded for the properties, the calls it has attempted on   *)
(* Slack and Jira in order (effects) and the grep commands of the          *)
(* discovery (greps).  A Slack post, an attachment upload and the comment  *)
(* about a failed RCA are awaited inside a try whose catch only logs: the  *)
(* workflow goes on the same way whether they succeed or not.              *)
(* slackDown tells whether Slack rejects calls during the workflow, and     *)
(* slackFailed holds the places in effects of the rejected calls.          *)
(*   pc  "start" "discover" "ticket" "rca" "in_rca" "comment" "tc"         *)
(*       "in_tc" "tc_comment" "returned"                                   *)
(***************************************************************************)
Effect(call, text) == [call |-> call, text |-> text]

Attempt(w, call, text) == [w EXCEPT !.effects = Append(@, Effect(call, text))]

NewWorkflow(pc, githubRepo, env, description, attachments) ==
    [pc |-> pc, githubRepo |-> githubRepo, env |-> env, description |-> description,
     attachments |-> attachments, relevantFiles |-> <<>>, issueKey |-> None,
     rcaResult |-> None, testCasesResult |-> None, effects |-> <<>>, greps |-> 0,
     slackDown |-> FALSE, slackFailed |-> {}]

\* The Slack calls attempted between w and t, by place in the effects
SlackPosts(w, t) ==
    { k \in (Len(w.effects) + 1)..Len(t.effects) : t.effects[k].call = "slack" }

\* A workflow in which a rejected chat.postMessage ends processSlackEvent
SlackOutcomesBlocking(w, t) ==
    { t } \cup
    (IF w.slackDown /\ SlackPosts(w, t) # {}
     THEN { [w EXCEPT !.effects = SubSeq(t.effects, 1, k), !.pc = "returned",
                      !.slackFailed = @ \cup {k}] : k \in SlackPosts(w, t) }
     ELSE {})

\* Every chat.postMessage is awaited inside its own try whose catch only
\* logs (lines 39-47, 59-68, 93-101, 156-164, 169-177, 208-216, 256-264,
\* 296-304, 331-339, 347-358): processSlackEvent goes from w to t whichever
\* of the calls are rejected.  Calls are rejected only where Slack has
\* outages (slackDown); slackFailed records the rejected ones.
SlackOutcomes(w, t) ==
    { [t EXCEPT !.slackFailed = @ \cup failed] :
        failed \in (IF w.slackDown THEN SUBSET SlackPosts(w, t) ELSE {{}}) }

\* A start that does not look at the repository
StartWhateverTheRepository ==
    /\ wf.pc = "start"
    /\ wf' \in SlackOutcomes(wf, [Attempt(wf, "slack", <<"Analyzing">>) EXCEPT !.pc = "discover"])
    /\ UNCHANGED run

\* lines 13-68: without a repository the event is answered and dropped, else
\* it is acknowledged
Start ==
    /\ wf.pc = "start"
    /\ wf' \in SlackOutcomes(wf, IF ~wf.githubRepo
             THEN [Attempt(wf, "slack", <<"RepositoryRequired">>) EXCEPT !.pc = "returned"]
             ELSE [Attempt(wf, "slack", <<"Analyzing">>) EXCEPT !.pc = "discover"])
    /\ UNCHANGED run

\* lines 70-103, step 1
Discover ==
    /\ wf.pc = "discover"
    /\ LET found == findRelevantFilesWithGrep(wf.env, wf.description) IN
       wf' \in SlackOutcomes(wf, IF found.threw
             THEN [Attempt(wf, "slack", <<"FailedToSearchRepository">> \o found.error)
                      EXCEPT !.pc = "returned", !.greps = found.greps]
             ELSE [wf EXCEPT !.relevantFiles = found.files, !.greps = found.greps,
                             !.pc = "ticket"])
    /\ UNCHANGED run

\* lines 105-177, step 2: the ticket, the attachments, the link on Slack
CreateTicket ==
    /\ wf.pc = "ticket"
    /\ \E created \in BOOLEAN :
          LET w1 == Attempt(wf, "jira.createTicket", <<"IssueDescription">>)
              w2 == IF wf.attachments
                    THEN Attempt(w1, "jira.uploadAttachments", <<"Attachments">>) ELSE w1
          IN  wf' \in SlackOutcomes(wf, IF created
                    THEN [Attempt([w2 EXCEPT !.issueKey = Some("KEY-1")],
                                  "slack", <<"TicketCreated">>) EXCEPT !.pc = "rca"]
                    ELSE [Attempt(w1, "slack", <<"FailedToCreateTicket", "JiraError">>)
                             EXCEPT !.pc = "returned"])
    /\ UNCHANGED run

\* The run of a later agent loop of the same workflow: the answers that are
\* not the filler stay in a row over the workflow
NextRun(kind, prev) ==
    [InitRun(kind) EXCEPT
        !.varied = prev.varied,
        !.variedAt = IF prev.varied = 0 \/ prev.variedAt = prev.calls THEN 0 ELSE -1]

\* line 191: performRCA is called
PerformRCA ==
    /\ wf.pc = "rca"
    /\ run' = InitRun("rca")
    /\ wf' = [wf EXCEPT !.pc = "in_rca"]

\* A catch of the RCA failure that goes on to the test cases
AfterRcaFailureContinues(w, error) ==
    [Attempt(w, "slack", <<"FailedToPerformRca">> \o error) EXCEPT !.pc = "tc"]

\* lines 204-226: the catch of step 3
AfterRcaFailure(w, error) ==
    [Attempt(Attempt(w, "slack", <<"FailedToPerformRca">> \o error),
             "jira.postComment", <<"RcaAnalysisFailed">> \o error)
        EXCEPT !.pc = "returned"]

\* lines 200-202: rcaResult.summary.length, rcaResult.rootCause.length and
\* rcaResult.recommendedFix.length are read inside the try of step 3; the
\* read throws a TypeError when the field is undefined
LengthReadThrows(rcaResult) ==
    \/ rcaResult.summary = Undefined
    \/ rcaResult.rootCause = Undefined
    \/ rcaResult.recommendedFix = Undefined

\* lines 190-226: performRCA has returned or thrown
RcaEnds ==
    /\ wf.pc = "in_rca"
    /\ run.pc \in {"returned", "threw"}
    /\ wf' \in SlackOutcomes(wf, IF run.pc = "threw" THEN AfterRcaFailure(wf, run.error)
             ELSE IF LengthReadThrows(run.result[1])
                  THEN AfterRcaFailure([wf EXCEPT !.rcaResult = run.result],
                                       <<"TypeError">>)
                  ELSE [wf EXCEPT !.rcaResult = run.result, !.pc = "comment"])
    /\ UNCHANGED run

\* A comment that never carries the banner
RcaCommentWithoutBanner(rcaResult) ==
    <<"AutomatedRcaH">> \o rcaResult.summary
    \o <<"RootCauseH3">> \o rcaResult.rootCause
    \o <<"FixH3">> \o rcaResult.recommendedFix
    \o <<"DetailsH3">> \o rcaResult.details

\* lines 235-246: the text of the RCA comment
RcaComment(rcaResult) ==
    (IF "incomplete" \in DOMAIN rcaResult /\ rcaResult.incomplete
     THEN <<"IncompleteAnalysisPanel">> ELSE <<>>)
    \o <<"AutomatedRcaH">> \o rcaResult.summary
    \o <<"RootCauseH3">> \o rcaResult.rootCause
    \o <<"FixH3">> \o rcaResult.recommendedFix
    \o <<"DetailsH3">> \o rcaResult.details

\* A step 4 that goes on to the test cases whether the comment went through
\* or not
PostRcaCommentThenGoOn ==
    /\ wf.pc = "comment"
    /\ \E posted \in BOOLEAN :
          LET w1 == Attempt(wf, "jira.postComment", RcaComment(wf.rcaResult[1])) IN
          wf' \in SlackOutcomes(wf, IF posted THEN [w1 EXCEPT !.pc = "tc"]
                ELSE [Attempt(w1, "slack", <<"FailedToPostRca", "JiraError">>)
                         EXCEPT !.pc = "tc"])
    /\ UNCHANGED run

\* lines 228-266, step 4
PostRcaComment ==
    /\ wf.pc = "comment"
    /\ \E posted \in BOOLEAN :
          LET w1 == Attempt(wf, "jira.postComment", RcaComment(wf.rcaResult[1])) IN
          wf' \in SlackOutcomes(wf, IF posted THEN [w1 EXCEPT !.pc = "tc"]
                ELSE [Attempt(w1, "slack", <<"FailedToPostRca", "JiraError">>)
                         EXCEPT !.pc = "returned"])
    /\ UNCHANGED run

\* line 280: generateTestCases is called
GenerateTestCases ==
    /\ wf.pc = "tc"
    /\ run' = NextRun("tc", run)
    /\ wf' = [wf EXCEPT !.pc = "in_tc"]

\* A catch of the test-case failure that ends the workflow
AfterTestCasesFailureAborts(w, error) ==
    [Attempt(w, "slack", <<"TestCaseGenerationFailedNote">> \o error)
        EXCEPT !.testCasesResult = None, !.pc = "returned"]

\* lines 292-307: the catch of step 5
AfterTestCasesFailure(w, error) ==
    [Attempt(w, "slack", <<"TestCaseGenerationFailedNote">> \o error)
        EXCEPT !.testCasesResult = None, !.pc = "tc_comment"]

\* line 280: generateTestCases has returned or thrown
TcEnds ==
    /\ wf.pc = "in_tc"
    /\ run.pc \in {"returned", "threw"}
    /\ wf' \in SlackOutcomes(wf, IF run.pc = "threw" THEN AfterTestCasesFailure(wf, run.error)
             ELSE [wf EXCEPT !.testCasesResult = run.result, !.pc = "tc_comment"])
    /\ UNCHANGED run

\* A step 6 that posts the comment whenever generateTestCases returned
PostTestCasesWheneverReturned ==
    /\ wf.pc = "tc_comment"
    /\ \E posted \in BOOLEAN :
          LET some == wf.testCasesResult # None
              w1 == IF ~some THEN wf
                    ELSE LET w == Attempt(wf, "jira.postComment",
                                          wf.testCasesResult[1].fullResponse)
                         IN  IF posted THEN w
                             ELSE Attempt(w, "slack", <<"FailedToPostTestCases", "JiraError">>)
          IN  /\ some \/ posted
              /\ wf' \in SlackOutcomes(wf, [Attempt(w1, "slack",
                                <<"Completed">> \o (IF some THEN <<"GeneratedTestCases">>
                                                    ELSE <<>>))
                           EXCEPT !.pc = "returned"])
    /\ UNCHANGED run

\* lines 309-371, step 6 and the final message
PostTestCases ==
    /\ wf.pc = "tc_comment"
    /\ \E posted \in BOOLEAN :
          LET some == wf.testCasesResult # None /\ Len(wf.testCasesResult[1].testCases) > 0
              w1 == IF ~some THEN wf
                    ELSE LET w == Attempt(wf, "jira.postComment",
                                          wf.testCasesResult[1].fullResponse)
                         IN  IF posted THEN w
                             ELSE Attempt(w, "slack", <<"FailedToPostTestCases", "JiraError">>)
          IN  /\ some \/ posted
              /\ wf' \in SlackOutcomes(wf, [Attempt(w1, "slack",
                                <<"Completed">> \o (IF some THEN <<"GeneratedTestCases">>
                                                    ELSE <<>>))
                           EXCEPT !.pc = "returned"])
    /\ UNCHANGED run

(***************************************************************************)
(* Repositories, issue descriptions and events                             *)
(***************************************************************************)
RECURSIVE DigitsOf(_)
DigitsOf(i) ==
    IF i < 10 THEN <<Digits[i + 1]>> ELSE DigitsOf(i \div 10) \o <<Digits[(i % 10) + 1]>>

\* src/f<i>.js
PlainFile(i, content) ==
    [dir |-> <<<<"s", "r", "c">>>>, name |-> <<"f">> \o DigitsOf(i) \o <<".", "j", "s">>,
     content |-> content]

\* auth/login.js holds the word login; db/schema.sql does not
LoginJs == [dir |-> <<<<"a", "u", "t", "h">>>>, name |-> <<"l", "o", "g", "i", "n", ".", "j", "s">>,
            content |-> <<"i", "f", " ", "(", "l", "o", "g", "i", "n", ")", " ", "{">>]

SchemaSql == [dir |-> <<<<"d", "b">>>>, name |-> <<"s", "c", "h", "e", "m", "a", ".", "s", "q", "l">>,
              content |-> <<"c", "r", "e", "a", "t", "e", " ", "t", "a", "b", "l", "e">>]

\* files find leaves out: in an excluded directory, without a listed extension
VendorJs == [dir |-> <<<<"n", "o", "d", "e", "_", "m", "o", "d", "u", "l", "e", "s">>, <<"p", "k", "g">>>>, name |-> <<"l", "o", "g", "i", "n", ".", "j", "s">>,
             content |-> <<"l", "o", "g", "i", "n">>]

NotesTxt == [dir |-> <<>>, name |-> <<"n", "o", "t", "e", "s", ".", "t", "x", "t">>, content |-> <<"l", "o", "g", "i", "n">>]

\* the word in another case, and inside a longer word
UpperPy == [dir |-> <<>>, name |-> <<"A", "u", "t", "h", ".", "p", "y">>, content |-> <<"L", "O", "G", "I", "N", " ", "=", " ", "1">>]

LoginsMd == [dir |-> <<<<"d", "o", "c", "s">>>>, name |-> <<"R", "E", "A", "D", "M", "E", ".", "m", "d">>,
             content |-> <<"a", "l", "l", " ", "l", "o", "g", "i", "n", "s">>]

SpecialFiles == {LoginJs, SchemaSql, VendorJs, NotesTxt, UpperPy, LoginsMd}

\* A repository of n files: plain files and one special file at position pos
RepositoryWith(n, content, pos, special) ==
    [i \in 1..n |-> IF i = pos THEN special ELSE PlainFile(i, content)]

\* Sizes at and around the limits of the code
RepositorySizes == {2, RESULT_LIMIT, RESULT_LIMIT + 2, FIND_LIMIT, FIND_LIMIT + 1}

Repositories ==
    { <<>>, <<LoginJs, SchemaSql>> }
    \cup UNION { { RepositoryWith(n, content, pos, special) :
                      content \in {<<"x">>, <<"a", " ", "b", "u", "t", "t", "o", "n">>},
                      pos \in {1, n}, special \in SpecialFiles } :
                    n \in RepositorySizes }

\* Which commands of the discovery fail
CommandFailures ==
    { [findFails |-> {}, grepFails |-> {}],
      [findFails |-> {1}, grepFails |-> {}],
      [findFails |-> {2}, grepFails |-> {}],
      [findFails |-> {}, grepFails |-> {RelativeFile(LoginJs)}] }

Environment(exists, repo, fails) ==
    [repoExists |-> exists, repo |-> repo,
     findFails |-> fails.findFails, grepFails |-> fails.grepFails]

NoFailure == [findFails |-> {}, grepFails |-> {}]

MissingRepository == Environment(FALSE, <<>>, NoFailure)

Environments ==
    {MissingRepository}
    \cup { Environment(TRUE, repo, fails) : repo \in Repositories, fails \in CommandFailures }

LoginButtonBroken == <<"L", "o", "g", "i", "n", " ", "b", "u", "t", "t", "o", "n", " ", "b", "r", "o", "k", "e", "n">>

Descriptions ==
    { <<>>,
      <<"t", "h", "e", " ", "a", " ", "a", "n">>,
      <<"i", "s", " ", "i", "t", " ", "o", "n", ",", " ", "o", "r", " ", "a", "t", " ", "4", "2", "?">>,
      <<"F", "i", "x", " ", "t", "h", "e", " ", "b", "u", "g", "!">>,
      LoginButtonBroken,
      <<"b", "u", "t", "t", "o", "n", " ", "l", "o", "g", "i", "n">>,
      <<"T", "h", "e", " ", "l", "o", "g", "-", "i", "n", ".", ".", ".", " ", "L", "O", "G", "I", "N", " ", "l", "o", "g", "i", "n">>,
      <<"s", "c", "h", "e", "m", "a", "_", "v", "2", " ", "t", "a", "b", "l", "e">> }

\* The events the workflow is run on
Events ==
    { NewWorkflow("start", FALSE, Environment(TRUE, <<LoginJs, SchemaSql>>, NoFailure),
                  LoginButtonBroken, FALSE),
      NewWorkflow("start", TRUE, MissingRepository, LoginButtonBroken, FALSE),
      NewWorkflow("start", TRUE, Environment(TRUE, <<LoginJs, SchemaSql>>, NoFailure),
                  LoginButtonBroken, TRUE) }

\* The discovery on its own
DiscoveryInit ==
    /\ run = IdleRun
    /\ wf \in { NewWorkflow("discover", TRUE, env, description, FALSE) :
                  env \in Environments, description \in Descriptions }

DiscoveryNext == Discover

DiscoverySpec == DiscoveryInit /\ [][DiscoveryNext]_vars

\* The workflow with its two agent loops
WorkflowInit ==
    /\ run = IdleRun
    /\ wf \in Events

WorkflowNext ==
    \/ Start
    \/ Discover
    \/ CreateTicket
    \/ PerformRCA
    \/ RcaEnds
    \/ PostRcaComment
    \/ GenerateTestCases
    \/ TcEnds
    \/ PostTestCases
    \/ IssueCompletion
    \/ LoopExit
    \/ CompletionReturns
    \/ CompletionFails
    \/ ExecuteToolCall
    \/ SubprocessSettles
    \/ TimerFires

WorkflowSpec == WorkflowInit /\ [][WorkflowNext]_vars

\* The workflow while Slack rejects some of the calls
SlackDownInit ==
    /\ run = IdleRun
    /\ wf \in { [w EXCEPT !.slackDown = TRUE] : w \in Events }

SlackDownSpec == SlackDownInit /\ [][WorkflowNext]_vars

(***************************************************************************)
(* Concurrent invocations.  webhookHandler starts processSlackEvent        *)
(* without awaiting it, so several invocations are in progress at once;    *)
(* the event loop runs one of them at a time and goes over to another one  *)
(* where the running one awaits or has ended.  run is the agent loop of    *)
(* the invocation that is running, wf.running its number and wf.waiting    *)
(* the agent loops of the others, by number.  Every invocation has its     *)
(* own messages, iteration and result (locals of performRCA and            *)
(* generateTestCases); the modules hold no state that a run writes.        *)
(***************************************************************************)
Invocations == {1, 2}

ConcurrentWorkflow(running, waiting) ==
    [pc |-> "concurrent", running |-> running, waiting |-> waiting]

\* The running invocation is at an await (of the completion, of
\* executeToolCall, of the race) or has ended
AtAwait(r) == r.pc \in {"await_completion", "tool", "await_exec", "returned", "threw"}

\* Invocations whose conversation is one array of the module
ResumedOnSharedConversation(running, resumed) ==
    [resumed EXCEPT !.messages = running.messages]

\* rca-service.js 262-270, test-cases-service.js 273-281: what an invocation
\* finds when it is resumed are its own locals
Resumed(running, resumed) == resumed

\* The event loop goes over to a waiting invocation that is not at its end
Resume ==
    /\ wf.pc = "concurrent"
    /\ AtAwait(run)
    /\ \E i \in DOMAIN wf.waiting :
          /\ wf.waiting[i].pc \notin {"returned", "threw"}
          /\ run' = Resumed(run, wf.waiting[i])
          /\ wf' = ConcurrentWorkflow(i,
                      [j \in (DOMAIN wf.waiting \ {i}) \cup {wf.running} |->
                          IF j = wf.running THEN run ELSE wf.waiting[j]])

\* The call at which the answer of the completion service may be another one
\* than the filler: the first one whose text can end the run
VariedCall == MIN_TEXT_ITERATION + 1

\* One answer over all invocations is not the filler
VarietyAllowed ==
    run'.varied > run.varied =>
        /\ run.calls = VariedCall
        /\ \A i \in DOMAIN wf.waiting : wf.waiting[i].varied = 0

\* One invocation is in performRCA when the other is in generateTestCases
KindOf(i) == IF i = 1 THEN "rca" ELSE "tc"

ConcurrentInit ==
    /\ run = InitRun(KindOf(1))
    /\ wf = ConcurrentWorkflow(1, [i \in Invocations \ {1} |-> InitRun(KindOf(i))])

ConcurrentNext ==
    \/ Resume
    \/ IssueCompletion
    \/ LoopExit
    \/ CompletionReturns /\ VarietyAllowed
    \/ CompletionFails
    \/ ExecuteToolCall
    \/ SubprocessSettles
    \/ TimerFires

ConcurrentSpec == ConcurrentInit /\ [][ConcurrentNext]_vars

(***************************************************************************)
(* The webhook: verifySlackSignature and webhookHandler of webhook.js.     *)
(* A request is [headers, body]: headers maps the names of the headers     *)
(* sent to their values (strings as sequences of characters), body is the  *)
(* parsed JSON, which also stands for the raw body it was parsed from.     *)
(* An HMAC is the tuple of the key and of the parts of the signed string:  *)
(* two of them are equal only when key and string are.  Events are not     *)
(* replies in a thread.                                                    *)
(***************************************************************************)
SignatureHeader == "x-slack-signature"

TimestampHeader == "x-slack-request-timestamp"

\* Math.floor(Date.now() / 1000) at the time of the request
CurrentTime == 2000

MAX_TIMESTAMP_AGE == 300

\* A number is <<n>>, and NaN the empty tuple
NaN == <<>>

IsDigit(ch) == \E d \in 1..Len(Digits) : Digits[d] = ch

DigitValue(ch) == (CHOOSE d \in 1..Len(Digits) : Digits[d] = ch) - 1

RECURSIVE LeadingDigits(_)
LeadingDigits(s) ==
    IF s # <<>> /\ IsDigit(Head(s)) THEN <<Head(s)>> \o LeadingDigits(Tail(s)) ELSE <<>>

RECURSIVE DecimalValue(_)
DecimalValue(digits) ==
    IF digits = <<>> THEN 0
    ELSE 10 * DecimalValue(SubSeq(digits, 1, Len(digits) - 1)) + DigitValue(Last(digits))

RECURSIVE SkipSpaces(_)
SkipSpaces(s) == IF s # <<>> /\ Head(s) = " " THEN SkipSpaces(Tail(s)) ELSE s

\* parseInt(s): white space, an optional sign, then the digits up to the
\* first other character; NaN when there is no digit
ParseInt(s) ==
    LET t == SkipSpaces(s)
        negative == t # <<>> /\ Head(t) = "-"
        unsigned == IF t # <<>> /\ Head(t) \in {"-", "+"} THEN Tail(t) ELSE t
        digits == LeadingDigits(unsigned)
    IN  IF digits = <<>> THEN NaN
        ELSE IF negative THEN <<0 - DecimalValue(digits)>> ELSE <<DecimalValue(digits)>>

Abs(x) == IF x < 0 THEN 0 - x ELSE x

\* Math.abs(currentTime - parseInt(timestamp)) > 300; a comparison with NaN
\* is false
TimestampTooOld(timestamp) ==
    LET t == ParseInt(timestamp) IN
    t # NaN /\ Abs(CurrentTime - t[1]) > MAX_TIMESTAMP_AGE

\* 'v0=' + HMAC-SHA256(key, `v0:${timestamp}:${rawBody}`) in hex
Sign(key, timestamp, rawBody) == <<"v0=", key, timestamp, rawBody>>

\* crypto.timingSafeEqual, which throws on buffers of different lengths; the
\* catch returns false
TimingSafeEqual(a, b) == a = b

\* A verification that only looks for the two headers
HeadersPresent(req, signingSecret) ==
    Truthy(Get(req.headers, SignatureHeader)) /\ Truthy(Get(req.headers, TimestampHeader))

verifySlackSignature(req, signingSecret) ==
    LET signature == Get(req.headers, SignatureHeader)
        timestamp == Get(req.headers, TimestampHeader)
    IN  /\ Truthy(signature) /\ Truthy(timestamp)
        /\ ~TimestampTooOld(timestamp)
        /\ TimingSafeEqual(signature, Sign(signingSecret, timestamp, req.body))

\* extractIssueAndRepo: the message names a repository or not
RepoInMessage(text) == \E i \in 1..Len(text) : text[i] = "RepoUrl"

\* What webhookHandler answers and what it starts:
\* [status, started], started being the arguments of processSlackEvent
Answer(status, started) == [status |-> status, started |-> started]

webhookHandler(req, env) ==
    IF req.body.type = "url_verification" THEN Answer(200, None)
    ELSE IF env.signingSecret # <<>> /\ ~verifySlackSignature(req, env.signingSecret)
    THEN Answer(401, None)
    ELSE IF req.body.type = "event_callback"
    THEN IF "event" \notin DOMAIN req.body THEN Answer(500, None)
         ELSE IF req.body.event.type = "app_mention"
         THEN Answer(200, Some([githubRepo |-> RepoInMessage(req.body.event.text)
                                              \/ env.envRepo,
                                event |-> req.body.event]))
         ELSE Answer(200, None)
    ELSE Answer(200, None)

\* A request is handled
HandleRequest ==
    /\ wf.pc = "request"
    /\ LET answer == webhookHandler(wf.request, wf.env) IN
       wf' = [wf EXCEPT !.pc = "answered", !.status = answer.status,
                        !.started = answer.started,
                        !.outcome = IF answer.started # None THEN "pending" ELSE "none"]
    /\ UNCHANGED run

\* A handler that awaits processSlackEvent inside its try: a rejection
\* reaches the catch of the handler
AfterAwaitedWorkflow(w, outcome) ==
    [w EXCEPT !.outcome = outcome,
              !.status = IF outcome = "rejected" THEN 500 ELSE @]

\* lines 671-678: processSlackEvent(...).catch(err => console.error(...)) is
\* not awaited; when the promise settles a rejection is only logged
AfterWorkflowSettles(w, outcome) == [w EXCEPT !.outcome = outcome]

\* The workflow the handler started comes to its end, after the answer
WorkflowSettles ==
    /\ wf.pc = "answered" /\ wf.outcome = "pending"
    /\ \E outcome \in {"fulfilled", "rejected"} : wf' = AfterWorkflowSettles(wf, outcome)
    /\ UNCHANGED run

\* The requests
SigningSecret == <<"s", "e", "c", "r", "e", "t">>

OtherSecret == <<"o", "t", "h", "e", "r">>

Timestamps ==
    { Undefined, <<>>,
      <<"2", "0", "0", "0">>, <<"1", "7", "0", "0">>, <<"1", "6", "9", "9">>,
      <<"2", "3", "0", "0">>, <<"2", "3", "0", "1">>,
      <<"a", "b", "c">>, <<"2", "0", "0", "0", "x">>, <<"-", "5">> }

Bodies ==
    { [type |-> "url_verification", challenge |-> <<"Challenge">>],
      [type |-> "event_callback",
       event |-> [type |-> "app_mention", text |-> <<"Mention", "RepoUrl", "Txt">>]],
      [type |-> "event_callback", event |-> [type |-> "app_mention", text |-> <<"Mention", "Txt">>]],
      [type |-> "event_callback", event |-> [type |-> "message", text |-> <<"Txt">>]],
      [type |-> "event_callback"],
      [type |-> "block_actions"] }

\* The signatures a request with this time stamp and body may carry: none,
\* the empty one, the one made with the signing secret, one made with
\* another key, one made for another time stamp, a shorter string
Signatures(timestamp, body) ==
    { Undefined, <<>>, <<"v0=">>,
      Sign(SigningSecret, timestamp, body),
      Sign(OtherSecret, timestamp, body),
      Sign(SigningSecret, <<"1", "0", "0", "0">>, body) }

HeadersOf(signature, timestamp) ==
    LET names == (IF signature = Undefined THEN {} ELSE {SignatureHeader})
                 \cup (IF timestamp = Undefined THEN {} ELSE {TimestampHeader})
    IN  [n \in names |-> IF n = SignatureHeader THEN signature ELSE timestamp]

Requests ==
    UNION { { [headers |-> HeadersOf(signature, timestamp), body |-> body] :
                signature \in Signatures(timestamp, body) } :
            timestamp \in Timestamps, body \in Bodies }

WebhookInit ==
    /\ run = IdleRun
    /\ \E request \in Requests, secret \in {<<>>, SigningSecret}, envRepo \in BOOLEAN :
          wf = [pc |-> "request", request |-> request,
                env |-> [signingSecret |-> secret, envRepo |-> envRepo],
                status |-> 0, started |-> None, outcome |-> "none"]

WebhookNext == HandleRequest \/ WorkflowSettles

WebhookSpec == WebhookInit /\ [][WebhookNext]_vars

(***************************************************************************)
(* Properties                                                              *)
(***************************************************************************)
Ended(r) == r.pc \in {"returned", "threw"}

\* The tool-result messages made so far in the run
ToolResultsOf(r) ==
    { r.messages[i] : i \in { j \in 1..Len(r.messages) : r.messages[j].role = "tool" } }
    \cup { r.toolResults[i] : i \in 1..Len(r.toolResults) }

\* executeToolCall has returned the result of a 'finish' call
FinishInvoked(r) == \E m \in ToolResultsOf(r) : m.name = "finish"

\* The resolved path is the root or below it (segment by segment)
InsideRepo(resolved) == IsPrefix(NormalizeFrom(<<>>, REPO_PATH), resolved)

\* The tool calls proposed so far, with their identifiers
ProposedCalls(r) ==
    UNION { { r.messages[i].tool_calls[k] : k \in 1..Len(r.messages[i].tool_calls) } :
            i \in { j \in 1..Len(r.messages) : r.messages[j].role = "assistant" } }

\* C1: the completion service is never called more often than the budget of
\* the loop (30 for performRCA, 20 for generateTestCases), and once a 'finish'
\* call has been executed no further completion-service call is made.
C1_BudgetAndFinishStop ==
    /\ [](run.calls <= MAX_ITERATIONS(run.kind))
    /\ [][FinishInvoked(run) => run'.calls = run.calls]_vars

C1_Witness ==
    /\ run.pc = "returned" /\ FinishInvoked(run)
    /\ run.calls > 1 /\ run.calls < MAX_ITERATIONS(run.kind)

\* C2: a read_file or list_directory call whose path resolves outside the
\* repository root (a sibling directory with the root's name as a prefix
\* included) is answered with the outside-repository error, and no path
\* outside the root is ever handed to the file system.
C2_OutsidePathsRejected ==
    /\ \A p \in run.fsTouched : InsideRepo(p)
    /\ \A tc \in ProposedCalls(run) :
          /\ tc.name \in {"read_file", "list_directory"}
          /\ tc.args.json = "obj"
          => LET f == tc.args.f
                 path == IF tc.name = "read_file" THEN f.file_path ELSE f.dir_path
                 msg == IF tc.name = "read_file" THEN <<"FilePathOutsideRepository">>
                        ELSE <<"DirectoryPathOutsideRepository">>
             IN  ~InsideRepo(ResolvePath(path))
                 => \A m \in ToolResultsOf(run) :
                       m.tool_call_id = tc.id => m.payload = [error |-> msg]

\* C3: no failure while handling a tool call (path outside the sandbox, not
\* found, unknown tool, arguments that cannot be decoded) ends the run: from
\* the handling of a tool call the loop goes on to the next call or iteration.
C3_ToolFailureNeverAborts ==
    [][run.pc \in {"tool", "await_exec"} => run'.pc \in {"tool", "await_exec", "loop"}]_vars

\* C4: when the conversation is submitted to the completion service, every
\* tool call of every assistant message has exactly one tool-result message
\* with its identifier, placed after that assistant message and before the
\* next one.
C4_OneResultPerCall ==
    run.pc = "await_completion" =>
        LET msgs == run.messages
            assistants == { i \in 1..Len(msgs) : msgs[i].role = "assistant" }
        IN  \A a \in assistants : \A k \in 1..Len(msgs[a].tool_calls) :
               LET id == msgs[a].tool_calls[k].id
                   hits == { t \in 1..Len(msgs) :
                               msgs[t].role = "tool" /\ msgs[t].tool_call_id = id }
               IN  /\ Cardinality(hits) = 1
                   /\ \A t \in hits :
                         /\ a < t
                         /\ \A b \in assistants : a < b => t < b

C4_Witness ==
    /\ run.pc = "await_completion"
    /\ \E i \in 1..Len(run.messages) :
          /\ run.messages[i].role = "assistant"
          /\ Len(run.messages[i].tool_calls) = 2
    /\ \E m \in ToolResultsOf(run) : "error" \in DOMAIN m.payload

\* C5: the terminal result is assigned at most once in a run: once it has a
\* value, the value never changes.
C5_ResultAssignedOnce ==
    [][run.result # None => run'.result = run.result]_vars

\* C6: whenever performRCA returns the result of an exhausted run, the result
\* has incomplete = TRUE and its summary, rootCause, recommendedFix and details
\* are non-empty texts.
C6_FallbackFieldsNonEmpty ==
    (run.kind = "rca" /\ run.pc = "returned" /\ "incomplete" \in DOMAIN run.result[1]) =>
        LET res == run.result[1] IN
        /\ res.incomplete = TRUE
        /\ Truthy(res.summary) /\ Truthy(res.rootCause)
        /\ Truthy(res.recommendedFix) /\ Truthy(res.details)

\* C7: when generateTestCases leaves its loop after 20 completion-service
\* calls without a terminal result, it throws and hands out no result; a run
\* of generateTestCases that returns, returns a result produced inside the loop.
C7_TcExhaustionThrows ==
    /\ [][(run.kind = "tc" /\ run.pc = "loop" /\ run.calls = MAX_ITERATIONS_TC
              /\ run.result = None)
          => (run'.pc = "threw" /\ run'.result = None
              /\ run'.error = <<"TestCaseGenerationIncomplete">>)]_vars
    /\ [](run.kind = "tc" /\ run.pc = "returned" => run.result # None)
    /\ [][(run.kind = "tc" /\ run.pc = "loop" /\ run'.pc = "returned")
          => run'.result = run.result]_vars

C7_Witness ==
    /\ run.kind = "tc" /\ run.pc = "threw"
    /\ run.calls = MAX_ITERATIONS_TC /\ run.result = None
    /\ run.error = <<"TestCaseGenerationIncomplete">>

\* C8: after a completion-service call has failed the run has ended with the
\* wrapped error: no further completion-service call, no tool execution and no
\* result follow.
C8_CompletionFailureIsFatal ==
    /\ [](run.apiFailed =>
            /\ run.pc = "threw"
            /\ run.error = IterationError(run.kind, <<"ApiError">>)
            /\ run.result = None)
    /\ [][run'.apiFailed /\ ~run.apiFailed =>
            /\ run'.calls = run.calls
            /\ run'.messages = run.messages
            /\ run'.fsTouched = run.fsTouched
            /\ run'.lastExec = run.lastExec]_vars
    /\ [][run.apiFailed => run' = run]_vars

C8_Witness ==
    /\ run.apiFailed /\ run.pc = "threw"
    /\ run.calls > 1 /\ Len(run.messages) > 1

\* C9: executeCommand never throws: whatever settles the race it returns a
\* record, with success = TRUE exactly when the subprocess ended with status
\* zero before the timer fired, and with a non-empty stderr otherwise; the
\* record becomes the 'exec' tool result.
C9_ExecuteCommandTotal ==
    /\ [][run.pc = "await_exec" => run'.pc \in {"tool", "loop"}]_vars
    /\ [](run.lastExec # None =>
            LET e == run.lastExec[1] IN
            /\ e.result.success = (e.outcome = "exit0")
            /\ ~e.result.success => e.result.stderr # <<>>
            /\ \E m \in ToolResultsOf(run) : m.name = "exec" /\ m.payload = e.result)

C9_Witness ==
    /\ run.lastExec # None
    /\ run.lastExec[1].outcome = "exitN"
    /\ run.lastExec[1].result = [stdout |-> <<>>, stderr |-> <<"CommandFailed">>,
                                  success |-> FALSE]

\* C10: an executeCommand that is waiting for its subprocess eventually
\* returns, so the loop does not stay blocked on an 'exec' call.
C10_ExecEventuallyReturns ==
    (run.pc = "await_exec") ~> (run.pc # "await_exec")

C10_Witness ==
    /\ run.lastExec # None
    /\ run.lastExec[1].outcome = "timeout"
    /\ run.lastExec[1].result.success = FALSE
    /\ run.pc \in {"tool", "loop"}

\* The 'finish' calls executeToolCall has answered
AnsweredFinishCalls(r) ==
    { tc \in ProposedCalls(r) :
        tc.name = "finish" /\ \E m \in ToolResultsOf(r) : m.tool_call_id = tc.id }

\* The one answered last: the terminal result of the run was made of its answer
LastFinishCall(r) ==
    CHOOSE tc \in AnsweredFinishCalls(r) :
        \A o \in AnsweredFinishCalls(r) :
            o.id[1] < tc.id[1] \/ (o.id[1] = tc.id[1] /\ o.id[2] <= tc.id[2])

\* The argument object of a call (no fields when the arguments are not an object)
ArgFields(tc) == IF tc.args.json = "obj" THEN tc.args.f ELSE <<>>

LacksRequired(kind, tc) == RequiredFinishFields(kind) \ DOMAIN ArgFields(tc) # {}

\* The iteration whose response proposed the call
IterationOf(r, tc) ==
    LET assistants == { i \in 1..Len(r.messages) : r.messages[i].role = "assistant" }
        pos == CHOOSE i \in assistants :
                  \E k \in 1..Len(r.messages[i].tool_calls) : r.messages[i].tool_calls[k] = tc
    IN  Cardinality({ i \in assistants : i <= pos })

TestCaseFields ==
    {"title", "type", "target", "description", "test_steps", "expected_result",
     "priority", "related_files"}

AllFieldsPresent(kind, f) ==
    IF kind = "rca"
    THEN DOMAIN f = RequiredFinishFields("rca") \cup {"analysis_details"}
    ELSE /\ DOMAIN f = RequiredFinishFields("tc")
         /\ \A i \in 1..Len(f.test_cases) : DOMAIN f.test_cases[i] = TestCaseFields

\* C11: a 'finish' call whose arguments lack a required field is answered with
\* an error payload and produces no terminal result: the result is what it was
\* before the call and the loop goes on.
C11_IncompleteFinishRejected ==
    /\ [](\A tc \in AnsweredFinishCalls(run) :
            LacksRequired(run.kind, tc) =>
                \A m \in ToolResultsOf(run) :
                    m.tool_call_id = tc.id => DOMAIN m.payload = {"error"})
    /\ [][(/\ run.pc = "tool"
           /\ CurrentCalls(run)[run.toolIdx].name = "finish"
           /\ LacksRequired(run.kind, CurrentCalls(run)[run.toolIdx]))
          => (run'.result = run.result /\ run'.pc \in {"tool", "loop"})]_vars

\* C12: in a result made of a 'finish' call, details is the empty text when
\* analysis_details was absent, and every test case whose related_files was
\* absent has related_files equal to the empty list.
C12_OptionalFieldsDefault ==
    (run.result # None /\ AnsweredFinishCalls(run) # {}) =>
        LET f == ArgFields(LastFinishCall(run))
            res == run.result[1]
        IN  /\ (run.kind = "rca" /\ "analysis_details" \notin DOMAIN f)
                  => res.details = <<>>
            /\ (run.kind = "tc" /\ "test_cases" \in DOMAIN f)
                  => \A i \in 1..Len(f.test_cases) :
                        "related_files" \notin DOMAIN f.test_cases[i]
                        => /\ i \in 1..Len(res.testCases)
                           /\ "related_files" \in DOMAIN res.testCases[i]
                           /\ res.testCases[i].related_files = <<>>

\* C13: the result made of a 'finish' call with all fields present equals the
\* arguments field for field: summary, root_cause, recommended_fix and
\* analysis_details for an RCA; for test cases the same records in the same
\* order, each with its test_steps in the same order.
C13_FinishRoundTrip ==
    (run.result # None /\ AnsweredFinishCalls(run) # {}
        /\ AllFieldsPresent(run.kind, ArgFields(LastFinishCall(run)))) =>
        LET f == ArgFields(LastFinishCall(run))
            res == run.result[1]
        IN  IF run.kind = "rca"
            THEN /\ res.summary = f.summary
                 /\ res.rootCause = f.root_cause
                 /\ res.recommendedFix = f.recommended_fix
                 /\ res.details = f.analysis_details
            ELSE /\ Len(res.testCases) = Len(f.test_cases)
                 /\ \A i \in 1..Len(f.test_cases) :
                       /\ res.testCases[i] = f.test_cases[i]
                       /\ res.testCases[i].test_steps = f.test_cases[i].test_steps
                 /\ res.summary = f.summary
                 /\ res.testCoverage = f.test_coverage

C13_Witness ==
    /\ run.kind = "tc" /\ run.pc = "returned" /\ AnsweredFinishCalls(run) # {}
    /\ ArgFields(LastFinishCall(run)) = TcArgsB
    /\ Len(run.result[1].testCases) = 2
    /\ run.result[1].testCases[1].test_steps = <<"Step3", "Step1", "Step3">>

Range(s) == { s[i] : i \in 1..Len(s) }

\* The files of the repository that find lists, by position, and the place of
\* one of them in the listing
ListedPositions(env) == { i \in 1..Len(env.repo) : IsCodeFile(env.repo[i]) }

ListingRank(listed, i) == Cardinality({ j \in listed : j <= i })

\* C15: for a description without keywords (empty, only stop words, only
\* short tokens) findRelevantFilesWithGrep, when it returns, has run no grep
\* and returns the files with a listed extension outside the excluded
\* directories, in the order enumerated, cut after 50 entries (nothing when
\* the find command itself fails).
C15_NoKeywordsListsCodeFiles ==
    (wf.pc = "ticket" /\ extractKeywords(wf.description) = <<>>) =>
        LET files == wf.relevantFiles
            listed == ListedPositions(wf.env)
        IN  /\ wf.greps = 0
            /\ Len(files) <= FIND_LIMIT_NO_KEYWORDS
            /\ IF 1 \in wf.env.findFails THEN files = <<>>
               ELSE /\ Len(files) = Min(Cardinality(listed), FIND_LIMIT_NO_KEYWORDS)
                    /\ \A i \in listed :
                          ListingRank(listed, i) <= FIND_LIMIT_NO_KEYWORDS
                          => files[ListingRank(listed, i)] = RelativeFile(wf.env.repo[i])

C15_Witness ==
    /\ wf.pc = "ticket" /\ wf.description # <<>>
    /\ extractKeywords(wf.description) = <<>>
    /\ Len(wf.env.repo) > FIND_LIMIT_NO_KEYWORDS
    /\ wf.env.repo[1] = VendorJs
    /\ Len(wf.relevantFiles) = FIND_LIMIT_NO_KEYWORDS
    /\ wf.relevantFiles[1] = RelativeFile(wf.env.repo[2])

\* The positions of the files in which the keyword occurs
Holders(env, keyword) ==
    { i \in 1..Len(env.repo) : Contains(env.repo[i].content, keyword) }

\* Some extracted keyword occurs in the file with this relative path
HoldsSomeKeyword(env, keywords, file) ==
    \E i \in 1..Len(env.repo) : \E n \in 1..Len(keywords) :
        RelativeFile(env.repo[i]) = file /\ i \in Holders(env, keywords[n])

Searched(env, listed, i) ==
    /\ i \in listed
    /\ ListingRank(listed, i) <= FIND_LIMIT
    /\ RelativeFile(env.repo[i]) \notin env.grepFails

C17_BoundedUniqueInDiscoveryOrder ==
    wf.pc = "ticket" =>
        LET files == wf.relevantFiles
            keywords == extractKeywords(wf.description)
            \* the files found for the first keyword, then for the second, ...
            found == Flatten([n \in 1..Len(keywords) |->
                                 KeywordMatches(wf.env, keywords[n], n).files])
            \* when the file was found first
            FirstFound(f) ==
                CHOOSE p \in 1..Len(found) :
                    found[p] = f /\ \A q \in 1..(p - 1) : found[q] # f
        IN  /\ Len(files) <= RESULT_LIMIT
            /\ \A i, j \in 1..Len(files) : i # j => files[i] # files[j]
            /\ Len(keywords) > 0 =>
                  /\ Range(files) \subseteq Range(found)
                  /\ Len(files) = Min(Cardinality(Range(found)), RESULT_LIMIT)
                  /\ \A i \in 1..(Len(files) - 1) :
                        FirstFound(files[i]) < FirstFound(files[i + 1])
                  /\ Len(files) > 0 =>
                        \A f \in Range(found) :
                            FirstFound(f) < FirstFound(Last(files)) => f \in Range(files)

C17_Witness ==
    /\ wf.pc = "ticket"
    /\ Len(extractKeywords(wf.description)) > 1
    /\ Len(wf.env.repo) > FIND_LIMIT
    /\ Len(wf.relevantFiles) = RESULT_LIMIT
    /\ wf.relevantFiles[1] = RelativeFile(LoginJs)
    /\ wf.relevantFiles[2] = RelativeFile(wf.env.repo[2])

\* The calls attempted by the step from w to w2
NewEffects(w, w2) == SubSeq(w2.effects, Len(w.effects) + 1, Len(w2.effects))

\* The workflow has attempted a Slack message that starts with this note
SlackNote(effects, note) ==
    \E k \in 1..Len(effects) :
        effects[k].call = "slack" /\ Head(effects[k].text) = note

\* The workflow has attempted this call on Jira
JiraCall(effects, call) == \E k \in 1..Len(effects) : effects[k].call = call

\* The workflow has attempted a comment with the results of the RCA
RcaResultComment(effects) ==
    \E k \in 1..Len(effects) :
        /\ effects[k].call = "jira.postComment"
        /\ Head(effects[k].text) \in {"IncompleteAnalysisPanel", "AutomatedRcaH"}

\* C18: when the discovery, the creation of the ticket or step 3 (performRCA
\* throws, or the read of the lengths of its result does) fails,
\* processSlackEvent attempts the Slack message of that failure and returns
\* in the same step, and nothing runs after the return: after a failed
\* discovery no call on Jira was made and no agent loop was started, after a
\* failed ticket creation no agent loop was started and no comment attempted,
\* after a failed RCA no comment with RCA results was attempted and
\* generateTestCases was not called.
C18_FailureAbortsWorkflow ==
    /\ [][(wf.pc = "discover" /\ findRelevantFilesWithGrep(wf.env, wf.description).threw) =>
            /\ wf'.pc = "returned" /\ run' = run
            /\ SlackNote(NewEffects(wf, wf'), "FailedToSearchRepository")]_vars
    /\ [][(wf.pc = "ticket" /\ wf'.issueKey = None) =>
            /\ wf'.pc = "returned" /\ run' = run
            /\ SlackNote(NewEffects(wf, wf'), "FailedToCreateTicket")]_vars
    /\ [][(/\ wf.pc = "in_rca"
           /\ \/ run.pc = "threw"
              \/ run.pc = "returned" /\ LengthReadThrows(run.result[1])) =>
            /\ wf'.pc = "returned" /\ run' = run
            /\ SlackNote(NewEffects(wf, wf'), "FailedToPerformRca")]_vars
    /\ [][wf.pc # "returned"]_vars
    /\ [](SlackNote(wf.effects, "FailedToSearchRepository") =>
            /\ wf.pc = "returned" /\ run = IdleRun
            /\ \A k \in 1..Len(wf.effects) : wf.effects[k].call = "slack")
    /\ [](SlackNote(wf.effects, "FailedToCreateTicket") =>
            /\ wf.pc = "returned" /\ run = IdleRun
            /\ ~JiraCall(wf.effects, "jira.postComment"))
    /\ [](SlackNote(wf.effects, "FailedToPerformRca") =>
            /\ wf.pc = "returned" /\ run.kind = "rca" /\ Ended(run)
            /\ wf.testCasesResult = None
            /\ ~RcaResultComment(wf.effects))

C18_Witness ==
    /\ wf.pc = "returned" /\ wf.issueKey # None
    /\ run # IdleRun /\ run.kind = "rca" /\ run.pc = "threw"
    /\ SlackNote(wf.effects, "FailedToPerformRca")
    /\ JiraCall(wf.effects, "jira.createTicket")

\* C19: generateTestCases runs only once the ticket exists and the comment
\* with the RCA results went through; when it throws (an error wrapped by
\* the loop, or the budget of 30 used up) the workflow tells Slack, keeps the
\* ticket and everything done so far, goes on to step 6 and from there
\* returns after the final message.
C19_TestCaseFailureDoesNotAbort ==
    /\ [](wf.pc \in {"tc", "in_tc", "tc_comment"} =>
            /\ wf.issueKey # None /\ wf.rcaResult # None
            /\ JiraCall(wf.effects, "jira.createTicket")
            /\ RcaResultComment(wf.effects)
            /\ ~SlackNote(wf.effects, "FailedToPostRca"))
    /\ [][(wf.pc = "in_tc" /\ run.pc = "threw") =>
            /\ wf'.pc = "tc_comment" /\ run' = run
            /\ NewEffects(wf, wf') =
                  <<Effect("slack", <<"TestCaseGenerationFailedNote">> \o run.error)>>]_vars
    /\ [][/\ IsPrefix(wf.effects, wf'.effects)
          /\ wf.issueKey # None => wf'.issueKey = wf.issueKey
          /\ wf.rcaResult # None => wf'.rcaResult = wf.rcaResult]_vars
    /\ [][wf.pc = "tc_comment" =>
            /\ wf'.pc = "returned"
            /\ Last(wf'.effects).call = "slack"
            /\ Head(Last(wf'.effects).text) = "Completed"]_vars
    /\ [][(wf.pc = "tc_comment" /\ wf.testCasesResult = None) =>
            NewEffects(wf, wf') = <<Effect("slack", <<"Completed">>)>>]_vars

C19_Witness ==
    /\ wf.pc = "returned" /\ wf.issueKey # None
    /\ run # IdleRun /\ run.kind = "tc" /\ run.pc = "threw"
    /\ run.error = <<"TestCaseGenerationIncomplete">>
    /\ SlackNote(wf.effects, "TestCaseGenerationFailedNote")
    /\ RcaResultComment(wf.effects)
    /\ Last(wf.effects) = Effect("slack", <<"Completed">>)

\* The result of performRCA carries a true incomplete flag
FlaggedIncomplete(rcaResult) == "incomplete" \in DOMAIN rcaResult /\ rcaResult.incomplete

\* C20: performRCA runs only on a created ticket; when its loop has used the
\* 30 iterations without a result, it returns the fallback result flagged
\* incomplete; the workflow takes that result to step 4, whose
\* first call is a Jira comment made of the heading, the summary, the root
\* cause and the recommended fix of that result (then the details), with the
\* warning panel in front exactly when the result is flagged incomplete.
C20_ExhaustedRcaIsCommented ==
    /\ [](wf.pc \in {"in_rca", "comment"} =>
            wf.issueKey # None /\ JiraCall(wf.effects, "jira.createTicket"))
    /\ [][(/\ wf.pc = "in_rca" /\ run.pc = "loop"
           /\ run.iteration = MAX_ITERATIONS_RCA /\ run.result = None) =>
            /\ run'.pc = "returned" /\ run'.result = Some(RcaFallback(run.messages))
            /\ FlaggedIncomplete(run'.result[1])
            /\ wf' = wf]_vars
    /\ [][(wf.pc = "in_rca" /\ run.pc = "returned" /\ FlaggedIncomplete(run.result[1])) =>
            /\ wf'.pc = "comment" /\ wf'.rcaResult = run.result
            /\ wf'.issueKey = wf.issueKey]_vars
    /\ [][wf.pc = "comment" =>
            LET rcaResult == wf.rcaResult[1]
                comment == wf'.effects[Len(wf.effects) + 1]
                analysis == <<"AutomatedRcaH">> \o rcaResult.summary
                            \o <<"RootCauseH3">> \o rcaResult.rootCause
                            \o <<"FixH3">> \o rcaResult.recommendedFix
            IN  /\ Len(wf'.effects) > Len(wf.effects)
                /\ comment.call = "jira.postComment"
                /\ wf'.issueKey = wf.issueKey
                /\ (Head(comment.text) = "IncompleteAnalysisPanel")
                      <=> FlaggedIncomplete(rcaResult)
                /\ IF FlaggedIncomplete(rcaResult)
                   THEN IsPrefix(<<"IncompleteAnalysisPanel">> \o analysis, comment.text)
                   ELSE IsPrefix(analysis, comment.text)]_vars

C20_Witness ==
    /\ wf.pc = "tc" /\ wf.issueKey # None
    /\ run # IdleRun /\ run.kind = "rca" /\ run.pc = "returned"
    /\ run.iteration = MAX_ITERATIONS_RCA
    /\ wf.rcaResult = Some(RcaFallback(run.messages))
    /\ FlaggedIncomplete(wf.rcaResult[1])
    /\ \E k \in 1..Len(wf.effects) :
          /\ wf.effects[k] = Effect("jira.postComment", RcaComment(wf.rcaResult[1]))
          /\ Head(wf.effects[k].text) = "IncompleteAnalysisPanel"

\* The run ended on a text answer: its last message is an answer without
\* tool calls whose sections gave the result
EndedOnText(r) ==
    LET last == Last(r.messages) IN
    /\ last.role = "assistant" /\ Len(last.tool_calls) = 0
    /\ r.result # None /\ r.result = ResultFromText(r.kind, last.content)

\* TERMINATED_SUCCESS: a result made by 'finish' or taken from a text answer
TerminatedSuccess(r) ==
    /\ r.pc = "returned" /\ r.result # None
    /\ ~("incomplete" \in DOMAIN r.result[1])
    /\ FinishInvoked(r) \/ EndedOnText(r)

\* TERMINATED_EXHAUSTED: the budget is used up without a result
TerminatedExhausted(r) ==
    /\ r.iteration = MAX_ITERATIONS(r.kind)
    /\ ~FinishInvoked(r) /\ ~EndedOnText(r)
    /\ IF r.kind = "rca"
       THEN /\ r.pc = "returned" /\ r.result = Some(RcaFallback(r.messages))
            /\ r.result[1].incomplete
       ELSE /\ r.pc = "threw" /\ r.result = None
            /\ r.error = <<"TestCaseGenerationIncomplete">>

\* An error of the completion service or of a tool call, wrapped and rethrown
PropagatedError(r) ==
    /\ r.pc = "threw"
    /\ \E cause \in {<<"ApiError">>, <<"SyntaxError">>} : r.error = IterationError(r.kind, cause)

\* How many of the conditions hold
HowMany(conditions) == Cardinality({ i \in 1..Len(conditions) : conditions[i] })

\* C21: when every awaited call settles, a run of performRCA or
\* generateTestCases ends; an ended run has ended in exactly one of the three
\* ways (a result from finish or from a text answer; the budget used up, with
\* the flagged fallback for the RCA and the error for the test cases; a
\* wrapped error), and nothing happens in a run after its end.
C21_RunEndsInOneOfThreeWays ==
    /\ <>Ended(run)
    /\ [](Ended(run) =>
            HowMany(<<TerminatedSuccess(run), TerminatedExhausted(run),
                      PropagatedError(run)>>) = 1)
    /\ [][~Ended(run)]_vars

C21_Witness ==
    /\ run.kind = "tc" /\ TerminatedSuccess(run) /\ EndedOnText(run)
    /\ ~FinishInvoked(run)
    /\ run.iteration > MIN_TEXT_ITERATION /\ run.iteration < MAX_ITERATIONS_TC

\* The agent loop of invocation i, running or waiting
Invocation(r, w, i) == IF w.running = i THEN r ELSE w.waiting[i]

\* The answers of the completion service in a conversation
AssistantMessages(messages) ==
    SelectSeq(messages, LAMBDA m : m.role = "assistant")

\* C22: with two invocations in progress, every step is either the event
\* loop going over to the other invocation, which changes the state of
\* neither, or a step the running invocation would take on its own, which
\* appends to its conversation at most and leaves the conversation, the
\* iteration and the result of the other as they were; and each invocation
\* keeps its own system message, with an iteration count that is the number
\* of completion calls behind its own conversation.
C22_InvocationsDoNotInterfere ==
    /\ [][wf.pc = "concurrent" =>
            \/ \A i \in Invocations :
                  Invocation(run', wf', i) = Invocation(run, wf, i)
            \/ /\ wf'.running = wf.running
               /\ \A i \in Invocations \ {wf.running} :
                     Invocation(run', wf', i) = Invocation(run, wf, i)
               /\ IsPrefix(run.messages, run'.messages)
               /\ Next]_vars
    /\ [](wf.pc = "concurrent" =>
            \A i \in Invocations :
                LET r == Invocation(run, wf, i) IN
                /\ r.kind = KindOf(i)
                /\ Head(r.messages) = SystemMessage(KindOf(i))
                /\ r.iteration = r.calls
                /\ r.iteration = Len(AssistantMessages(r.messages))
                                 + (IF r.pc = "await_completion" \/ r.apiFailed THEN 1 ELSE 0))

C22_Witness ==
    /\ wf.pc = "concurrent" /\ wf.running = 1
    /\ run.pc = "await_completion" /\ run.iteration > VariedCall
    /\ wf.waiting[2].pc = "returned" /\ FinishInvoked(wf.waiting[2])
    /\ wf.waiting[2].iteration = VariedCall
    /\ wf.waiting[2].result = Some(TcResultFromFinish(TcArgsA))

\* The time stamp is a number of seconds at most 300 away from the current time
WithinWindow(timestamp) ==
    /\ timestamp # <<>>
    /\ \A i \in 1..Len(timestamp) : IsDigit(timestamp[i])
    /\ Abs(CurrentTime - DecimalValue(timestamp)) <= MAX_TIMESTAMP_AGE

\* The request carries both headers, a time stamp within the window and the
\* signature of the time stamp and the raw body under this secret
Authentic(req, secret) ==
    /\ SignatureHeader \in DOMAIN req.headers /\ req.headers[SignatureHeader] # <<>>
    /\ TimestampHeader \in DOMAIN req.headers
    /\ WithinWindow(req.headers[TimestampHeader])
    /\ req.headers[SignatureHeader] = Sign(secret, req.headers[TimestampHeader], req.body)

\* C23: with a signing secret configured, webhookHandler starts
\* processSlackEvent only for a request with both headers, a time stamp
\* within 300 seconds of the current time and the right signature, and it
\* answers every other event_callback request with 401 without starting
\* anything.
C23_OnlyAuthenticRequestsStart ==
    (wf.pc = "answered" /\ wf.env.signingSecret # <<>>) =>
        /\ wf.started # None => Authentic(wf.request, wf.env.signingSecret)
        /\ (wf.request.body.type = "event_callback"
            /\ ~Authentic(wf.request, wf.env.signingSecret))
           => (wf.status = 401 /\ wf.started = None)

\* The run is inside the for loop over the tool calls of a turn
InTurn(r) == r.pc \in {"tool", "await_exec"}

\* The results are those of the first calls of the turn, in their order
ResultsInCallOrder(results, calls) ==
    /\ Len(results) <= Len(calls)
    /\ \A k \in 1..Len(results) :
          results[k].tool_call_id = calls[k].id /\ results[k].name = calls[k].name

\* C24: inside a turn the run is at one tool call at a time (toolIdx), which
\* is the only one that can be in flight, with exactly the results of the
\* calls before it collected in their order; it goes on to the next call
\* only by receiving the result of the current one; and at the end of the
\* turn the results of all its calls are appended to the conversation in the
\* order of the calls.
C24_ToolCallsOneAtATimeInOrder ==
    /\ [](InTurn(run) =>
            /\ run.toolIdx \in 1..Len(CurrentCalls(run))
            /\ Len(run.toolResults) = run.toolIdx - 1
            /\ ResultsInCallOrder(run.toolResults, CurrentCalls(run)))
    /\ [][(InTurn(run) /\ InTurn(run')) =>
            /\ run'.messages = run.messages
            /\ \/ run'.toolIdx = run.toolIdx /\ run'.toolResults = run.toolResults
                  /\ run.pc = "tool" /\ run'.pc = "await_exec"
               \/ run'.toolIdx = run.toolIdx + 1 /\ run'.pc = "tool"
                  /\ SubSeq(run'.toolResults, 1, Len(run.toolResults)) = run.toolResults
                  /\ Last(run'.toolResults).tool_call_id
                        = CurrentCalls(run)[run.toolIdx].id]_vars
    /\ [][(InTurn(run) /\ run'.pc = "loop") =>
            LET calls == CurrentCalls(run)
                appended == SubSeq(run'.messages, Len(run.messages) + 1, Len(run'.messages))
            IN  /\ run.toolIdx = Len(calls)
                /\ IsPrefix(run.messages, run'.messages)
                /\ Len(appended) = Len(calls)
                /\ ResultsInCallOrder(appended, calls)
                /\ IsPrefix(run.toolResults, appended)]_vars

C24_Witness ==
    /\ run.pc = "loop" /\ Len(run.messages) > 3
    /\ LET n == Len(run.messages) IN
       /\ run.messages[n - 2].role = "assistant"
       /\ Len(run.messages[n - 2].tool_calls) = 2
       /\ run.messages[n - 1].name = "exec"
       /\ run.messages[n - 1].tool_call_id = run.messages[n - 2].tool_calls[1].id
       /\ run.messages[n].name = "finish"
       /\ run.messages[n].tool_call_id = run.messages[n - 2].tool_calls[2].id

\* C25: every step of a run leaves the conversation as it was or appends to
\* it, and the conversation always starts with the system message of the
\* run, which is its only system message.
C25_ConversationAppendOnly ==
    /\ [][IsPrefix(run.messages, run'.messages)]_vars
    /\ [](/\ Len(run.messages) >= 1
          /\ run.messages[1] = SystemMessage(run.kind)
          /\ run.messages[1].role = "system"
          /\ \A i \in 2..Len(run.messages) : run.messages[i].role \in {"assistant", "tool"})

C25_Witness ==
    /\ run.pc = "threw" /\ run.apiFailed
    /\ Len(run.messages) > MIN_TEXT_ITERATION
    /\ \E i \in 2..Len(run.messages) : run.messages[i].role = "tool"
    /\ \E i \in 2..Len(run.messages) :
          run.messages[i].role = "assistant" /\ Truthy(run.messages[i].content)

\* The answers without tool calls in the conversation from whose text a
\* result can be made
TextsWithResult(r) ==
    { i \in 1..Len(r.messages) :
        /\ r.messages[i].role = "assistant" /\ Len(r.messages[i].tool_calls) = 0
        /\ ResultFromText(r.kind, r.messages[i].content) # None }

\* C26: in both loops an answer without tool calls that arrives in one of
\* the iterations 1 to 5 leaves the result empty, whatever its text, and the
\* loop goes on to the next completion call.
C26_NoTextResultBeforeSixthIteration ==
    [][(/\ run.pc = "await_completion" /\ run'.pc = "loop"
        /\ run.iteration <= MIN_TEXT_ITERATION) =>
          /\ run'.result = None
          /\ run'.iteration = run.iteration
          /\ LoopCondition(run')]_vars

C26_Witness ==
    /\ run.kind = "rca" /\ run.pc = "await_completion"
    /\ run.iteration = MIN_TEXT_ITERATION + 1
    /\ run.result = None
    /\ TextsWithResult(run) # {}

\* The section of the text for each required field of the result
RequiredSections(kind) ==
    IF kind = "rca" THEN {"SumH", "RcH", "FixH"} ELSE {"TcH", "SumH", "CovH"}

\* C27: in both loops an answer without tool calls gives the run its result
\* only if every required section is in the text (Summary, Root Cause and
\* Recommended Fix for the analysis; Test Cases, Summary and Test Coverage
\* for the test cases).
C27_TextEndsRunOnlyWithAllSections ==
    [][(/\ run.pc = "await_completion" /\ run'.pc = "loop"
        /\ run.result = None /\ run'.result # None) =>
          \A hdr \in RequiredSections(run.kind) :
              MatchSection(Last(run'.messages).content, hdr) # None]_vars

\* The orderings of n keywords
Orderings(n) == { p \in [1..n -> 1..n] : \A i, j \in 1..n : p[i] = p[j] => i = j }

\* What lines 174-276 return for the keywords taken in another order
FilesInOrder(env, keywords, p) ==
    LET reordered == [i \in 1..Len(keywords) |-> keywords[p[i]]]
    IN  SliceFirst(SearchKeywords(env, reordered, Len(reordered)).files, RESULT_LIMIT)

\* The files that hold at least one of the keywords, as the searches find them
MatchUnion(env, keywords) ==
    UNION { Range(KeywordMatches(env, keywords[n], n).files) : n \in 1..Len(keywords) }

FindsSucceed(env, keywords) == env.findFails \cap 1..Len(keywords) = {}

TokenPlaces(text) ==
    { pl \in (1..Len(text)) \X (1..Len(text)) :
        /\ pl[1] <= pl[2]
        /\ \A k \in pl[1]..pl[2] : text[k] \in WordChars
        /\ pl[1] = 1 \/ text[pl[1] - 1] \notin WordChars
        /\ pl[2] = Len(text) \/ text[pl[2] + 1] \notin WordChars }

\* Where a token first starts in the text
FirstStart(text, token) ==
    CHOOSE a \in 1..Len(text) :
        /\ \E pl \in TokenPlaces(text) : pl[1] = a /\ SubSeq(text, pl[1], pl[2]) = token
        /\ \A pl \in TokenPlaces(text) : SubSeq(text, pl[1], pl[2]) = token => a <= pl[1]

\* C29: extractKeywords returns the distinct lower-cased tokens of the
\* description that have at least 3 characters and are no stop word, each
\* once, in the order of their first occurrence; the empty description gives
\* the empty list.
C29_KeywordsAreTheDistinctTokens ==
    LET text == ToLowerCase(wf.description)
        keywords == extractKeywords(wf.description)
        expected == { tok \in { SubSeq(text, pl[1], pl[2]) : pl \in TokenPlaces(text) } :
                        Len(tok) >= 3 /\ tok \notin stopWords }
    IN  /\ Range(keywords) = expected
        /\ \A a, b \in 1..Len(keywords) :
              a < b => FirstStart(text, keywords[a]) < FirstStart(text, keywords[b])
        /\ wf.description = <<>> => keywords = <<>>

C29_Witness ==
    LET text == ToLowerCase(wf.description) IN
    /\ wf.pc = "ticket"
    /\ text # wf.description
    /\ extractKeywords(wf.description) = <<<<"l", "o", "g">>, <<"l", "o", "g", "i", "n">>>>
    /\ Cardinality(TokenPlaces(text)) = 5

\* The names of the tools invoked in the run, in the order of the invocations
ToolsInvoked(r) ==
    LET toolMsgs == SelectSeq(r.messages, IsToolMsg)
    IN  [i \in 1..Len(toolMsgs) |-> toolMsgs[i].name]

NoSummarySection(r) ==
    \A i \in 1..Len(r.messages) :
        IsAssistantWithContent(r.messages[i]) => "SumH" \notin Range(r.messages[i].content)

\* C30: when performRCA returns the fallback result, no Summary section is in
\* the assistant text and at least one tool was invoked, the summary is the
\* fixed sentence followed by the names of the tools invoked (read_file, exec,
\* list_directory) in the order of the invocations, the first 10 of them,
\* and by the note on the remaining ones when more than 10 were invoked.
C30_FallbackSummaryListsToolNames ==
    (/\ run.kind = "rca" /\ run.pc = "returned" /\ run.result # None
     /\ FlaggedIncomplete(run.result[1])
     /\ NoSummarySection(run) /\ Len(ToolsInvoked(run)) > 0) =>
        LET invoked == ToolsInvoked(run) IN
        run.result[1].summary =
            <<"MaxIterationsReached", "InvestigationStepsTaken">>
            \o SliceFirst(invoked, STEPS_SHOWN)
            \o (IF Len(invoked) > STEPS_SHOWN THEN <<"AndMoreSteps">> ELSE <<>>)

\* The assistant messages with text, by position in the conversation
TextPositions(r) ==
    { i \in 1..Len(r.messages) : IsAssistantWithContent(r.messages[i]) }

\* performRCA has returned the best-effort result
ReturnedFallback(r) ==
    /\ r.kind = "rca" /\ r.pc = "returned" /\ r.result # None
    /\ FlaggedIncomplete(r.result[1])

\* C31: when performRCA returns the fallback result and the conversation holds
\* an assistant message with text, the details end with the text of the most
\* recent such message, cut to 500 characters, wherever in the conversation
\* that message is.
C31_DetailsHoldMostRecentText ==
    (ReturnedFallback(run) /\ TextPositions(run) # {}) =>
        LET latest == CHOOSE i \in TextPositions(run) : \A j \in TextPositions(run) : j <= i
        IN  EndsWith(run.result[1].details,
                     Substring(run.messages[latest].content, SUBSTRING_LIMIT))

\* The number of characters of a text
RECURSIVE TextLen(_)
TextLen(t) == IF t = <<>> THEN 0 ELSE TokLen(Head(t)) + TextLen(Tail(t))

\* Some assistant text of the conversation holds one of the anchors
Anchored(r, anchors) ==
    \E i \in TextPositions(r) : Range(r.messages[i].content) \cap anchors # {}

\* A text made of pieces of the assistant texts of the conversation
FromAssistantText(r, text) ==
    \A k \in 1..Len(text) :
        \/ text[k] = "Part"
        \/ \E i \in TextPositions(r) : text[k] \in Range(r.messages[i].content)

\* The field is the placeholder when no anchor is in the assistant text, and
\* otherwise text of the assistant messages of at most 500 characters
RecoveredOrPlaceholder(r, field, anchors, placeholder) ==
    IF Anchored(r, anchors)
    THEN TextLen(field) <= 500 /\ FromAssistantText(r, field)
    ELSE field = placeholder

\* C32: in the fallback result rootCause and recommendedFix are each the
\* fixed placeholder text when nothing is recovered from the assistant
\* messages, and otherwise recovered text of at most 500 characters.
C32_RecoveredTextsAreCapped ==
    ReturnedFallback(run) =>
        /\ RecoveredOrPlaceholder(run, run.result[1].rootCause, {"RcH", "RcColon"},
                                  <<"RootCauseIncomplete", "DidNotConverge">>)
        /\ RecoveredOrPlaceholder(run, run.result[1].recommendedFix, {"FixH", "FixColon"},
                                  <<"FurtherInvestigation", "ReviewDetails">>)

C32_Witness ==
    /\ ReturnedFallback(run)
    /\ \E i \in TextPositions(run) :
          /\ "RcColon" \in Range(run.messages[i].content)
          /\ TextLen(run.messages[i].content) > 500
    /\ run.result[1].rootCause = <<"Part">>

\* How far processSlackEvent has come: the number of the step it is at
StepAt(w) ==
    CASE w.pc \in {"start", "discover"} -> 1
      [] w.pc = "ticket" -> 2
      [] w.pc \in {"rca", "in_rca"} -> 3
      [] w.pc = "comment" -> 4
      [] w.pc \in {"tc", "in_tc"} -> 5
      [] w.pc = "tc_comment" -> 6
      [] OTHER -> 7

\* The places of the calls on Jira among the calls attempted
CallPlaces(effects, call) == { k \in 1..Len(effects) : effects[k].call = call }

IsRcaResultComment(e) ==
    e.call = "jira.postComment" /\ Head(e.text) \in {"IncompleteAnalysisPanel", "AutomatedRcaH"}

\* The comment of step 6: neither the RCA results nor the note on a failed RCA
IsTestCaseComment(e) ==
    /\ e.call = "jira.postComment" /\ ~IsRcaResultComment(e)
    /\ Head(e.text) # "RcaAnalysisFailed"

\* C33: processSlackEvent goes through discovery, ticket, RCA, RCA comment,
\* test-case generation and test-case comment in this order and never back;
\* it is at a step only when every earlier step ended successfully; it
\* creates at most one ticket; and every comment comes after the creation of
\* the ticket, the test-case comment after the comment with the RCA results
\* and after generateTestCases returned a result.
C33_StepsInOrder ==
    /\ [][StepAt(wf') >= StepAt(wf)]_vars
    /\ [](Cardinality(CallPlaces(wf.effects, "jira.createTicket")) <= 1)
    /\ [](StepAt(wf) <= 2 => \A k \in 1..Len(wf.effects) : wf.effects[k].call = "slack")
    /\ [](StepAt(wf) \in 2..6 =>
            /\ ~findRelevantFilesWithGrep(wf.env, wf.description).threw
            /\ wf.relevantFiles = findRelevantFilesWithGrep(wf.env, wf.description).files)
    /\ [](StepAt(wf) \in 3..6 =>
            wf.issueKey # None /\ CallPlaces(wf.effects, "jira.createTicket") # {})
    /\ [](StepAt(wf) \in {3, 4} => CallPlaces(wf.effects, "jira.postComment") = {})
    /\ [](StepAt(wf) \in 4..6 => wf.rcaResult # None /\ ~LengthReadThrows(wf.rcaResult[1]))
    /\ [](StepAt(wf) \in 5..6 =>
            /\ \E k \in 1..Len(wf.effects) : IsRcaResultComment(wf.effects[k])
            /\ ~SlackNote(wf.effects, "FailedToPostRca")
            /\ Cardinality(CallPlaces(wf.effects, "jira.postComment")) = 1)
    /\ [](wf.pc = "tc_comment" =>
            \/ run.pc = "returned" /\ wf.testCasesResult = run.result
            \/ run.pc = "threw" /\ wf.testCasesResult = None)
    /\ [](\A k \in CallPlaces(wf.effects, "jira.postComment") :
            /\ wf.issueKey # None
            /\ \E j \in CallPlaces(wf.effects, "jira.createTicket") : j < k
            /\ IsTestCaseComment(wf.effects[k]) =>
                  /\ wf.testCasesResult # None /\ run.kind = "tc" /\ run.pc = "returned"
                  /\ \E j \in 1..(k - 1) : IsRcaResultComment(wf.effects[j]))

C33_Witness ==
    /\ wf.pc = "returned" /\ wf.greps > 0
    /\ \E i, j, k \in 1..Len(wf.effects) :
          /\ i < j /\ j < k
          /\ wf.effects[i].call = "jira.createTicket"
          /\ IsRcaResultComment(wf.effects[j])
          /\ IsTestCaseComment(wf.effects[k])
    /\ Head(Last(wf.effects).text) = "Completed"

\* Why processSlackEvent has returned, Slack left aside: it came to its end,
\* or there was no repository, or the discovery, the creation of the ticket,
\* step 3 or the comment with the RCA results failed
ReturnedForCause(w, r) ==
    \/ Head(Last(w.effects).text) = "Completed"
    \/ ~w.githubRepo
    \/ findRelevantFilesWithGrep(w.env, w.description).threw
    \/ JiraCall(w.effects, "jira.createTicket") /\ w.issueKey = None
    \/ /\ r # IdleRun /\ r.kind = "rca"
       /\ r.pc = "threw" \/ (r.pc = "returned" /\ LengthReadThrows(r.result[1]))
    \/ SlackNote(w.effects, "FailedToPostRca")

\* C34: whichever Slack calls are rejected, processSlackEvent goes from each
\* step to the next one, leaves out none, and returns before its end only
\* for a failure of the discovery, of Jira or of the RCA (or for want of a
\* repository), never for a rejected Slack call.
C34_SlackFailuresDoNotBlock ==
    /\ [](wf.slackFailed \subseteq CallPlaces(wf.effects, "slack"))
    /\ [][StepAt(wf') \in {StepAt(wf), StepAt(wf) + 1} \/ wf'.pc = "returned"]_vars
    /\ [](wf.pc = "returned" => ReturnedForCause(wf, run))
    /\ [][(wf.pc = "start" /\ wf.githubRepo) => wf'.pc = "discover"]_vars
    /\ [][(wf.pc = "ticket" /\ wf'.issueKey # None) => wf'.pc = "rca"]_vars
    /\ [][wf.pc = "tc_comment" => Head(Last(wf'.effects).text) = "Completed"]_vars

C34_Witness ==
    /\ wf.pc = "returned"
    /\ Head(Last(wf.effects).text) = "Completed"
    /\ Cardinality(wf.slackFailed) >= 3
    /\ wf.slackFailed = CallPlaces(wf.effects, "slack")
    /\ \E k \in 1..Len(wf.effects) : IsTestCaseComment(wf.effects[k])

\* The request is an app_mention event that passed the checks of the handler
MentionStarted(w) ==
    /\ w.pc = "answered" /\ w.started # None
    /\ w.request.body.type = "event_callback"
    /\ w.request.body.event.type = "app_mention"

\* C35: for an app_mention event the handler has answered 200 as soon as it
\* has started processSlackEvent, while the workflow is still pending, and the
\* answer stays 200 when the workflow ends, fulfilled or rejected.
C35_AnswerDoesNotWaitForWorkflow ==
    /\ [][(wf.pc = "request" /\ wf'.started # None) =>
            /\ wf'.status = 200 /\ wf'.outcome = "pending" /\ MentionStarted(wf')]_vars
    /\ [](wf.pc = "answered" /\ wf.started # None => wf.status = 200)
    /\ [][wf.pc = "answered" =>
            /\ wf'.status = wf.status /\ wf'.pc = "answered"
            /\ wf'.outcome \in {"fulfilled", "rejected"}]_vars

C35_Witness ==
    MentionStarted(wf) /\ wf.status = 200 /\ wf.outcome = "rejected"

\* The place in the conversation of the last answer of the completion service
LastAnswer(r) ==
    CHOOSE i \in 1..Len(r.messages) :
        /\ r.messages[i].role = "assistant"
        /\ \A j \in (i + 1)..Len(r.messages) : r.messages[j].role # "assistant"

\* The turn at place i proposed 'finish'
ProposedFinish(r, i) ==
    \E k \in 1..Len(r.messages[i].tool_calls) : r.messages[i].tool_calls[k].name = "finish"

C37_NoRepositoryOnlyNotice ==
    /\ [](~wf.githubRepo =>
            /\ wf.pc \in {"start", "returned"}
            /\ run = IdleRun
            /\ wf.greps = 0 /\ wf.relevantFiles = <<>>
            /\ wf.issueKey = None /\ wf.rcaResult = None /\ wf.testCasesResult = None
            /\ wf.effects = IF wf.pc = "start" THEN <<>>
                            ELSE <<Effect("slack", <<"RepositoryRequired">>)>>)
    /\ [][(wf.pc = "start" /\ ~wf.githubRepo) => wf'.pc = "returned"]_vars

C37_Witness ==
    /\ ~wf.githubRepo /\ wf.pc = "returned"
    /\ wf.env.repoExists /\ wf.env.repo # <<>>
    /\ wf.effects = <<Effect("slack", <<"RepositoryRequired">>)>>

\* generateTestCases returned a result with at least one test case
HasTestCases(w) == w.testCasesResult # None /\ Len(w.testCasesResult[1].testCases) >= 1

\* C38: step 6 attempts the comment with the test cases exactly when
\* generateTestCases returned a result with at least one test case; when it
\* threw or returned no test case, no such comment is attempted; in every
\* case the workflow ends on the attempt of the final success message.
C38_TestCaseCommentOnlyWithTestCases ==
    /\ [][wf.pc = "tc_comment" =>
            LET new == NewEffects(wf, wf') IN
            /\ HasTestCases(wf) =>
                  \E k \in 1..Len(new) :
                      new[k] = Effect("jira.postComment", wf.testCasesResult[1].fullResponse)
            /\ ~HasTestCases(wf) => new = <<Effect("slack", <<"Completed">>)>>
            /\ wf'.pc = "returned"
            /\ Last(new).call = "slack" /\ Head(Last(new).text) = "Completed"]_vars
    /\ [](\A k \in 1..Len(wf.effects) : IsTestCaseComment(wf.effects[k]) => HasTestCases(wf))

\* generateTestCases returned a result without test cases, taken from a text
C38_Witness ==
    /\ wf.pc = "returned"
    /\ wf.testCasesResult # None /\ wf.testCasesResult[1].testCases = <<>>
    /\ run.kind = "tc" /\ EndedOnText(run)
    /\ Last(wf.effects) = Effect("slack", <<"Completed">>)
    /\ \A k \in 1..Len(wf.effects) : ~IsTestCaseComment(wf.effects[k])

====
